---------------------------- MODULE Spec2Model ----------------------------
(***************************************************************************)
(* A model of the playback session orchestrator of NEXO: the UnifiedPlayer *)
(* component (src/unnamed/part_002).  One component instance is modelled   *)
(* from construction to unmount.  A session is one run of the setup effect *)
(* (deps [media, loadEpg]); sessions are numbered 1, 2, ... in activation  *)
(* order and every closure variable of the effect (isMounted, the two      *)
(* timer ids, tracksToClean, the captured localFileUrl) is indexed by the  *)
(* session that owns the closure.                                          *)
(*                                                                         *)
(* React state is modelled by its current value (queued updater functions  *)
(* applied in order).  Where a handler reads the value captured by the     *)
(* last render instead of the current one (downloadQueue), the captured    *)
(* value is a variable of its own and Render is an action.                 *)
(***************************************************************************)
EXTENDS Integers, Sequences, FiniteSets, TLC

\* ------------------------------------------------------------------ bounds
MaxSessions == 2      \* activations of one component instance
MaxFiles == 2         \* files of a torrent, named 1..MaxFiles
MaxEnqueues == 3      \* calls of handleAddToDownloadQueue that append
MaxUrls == 3          \* blob URLs created by URL.createObjectURL
MaxCues == 2          \* cues the text tracks of one session receive
MaxTracks == 2        \* subtitle files loaded in one session of the cue specification
MaxOffset == 1        \* |subtitleSettings.offset|, in steps of 0.1 s
MaxChapters == 3      \* chapters of a delivered list
MaxTimers == 2        \* position timers set by onTimeUpdate
MaxChannels == 2      \* channels of a playlist, named 1..MaxChannels
MaxLoaders == 3       \* Hls instances alive at once
MaxRecoveries == 2    \* recovery calls on one Hls instance
MaxClock == 3         \* Date.now() runs from 0 to MaxClock
MaxEvents == 2        \* events queued on the media element and not yet dispatched
MaxZips == 2          \* runs of handleDownloadAllAsZip that start a ZIP

Sessions == 1..MaxSessions
Files == 1..MaxFiles
MissingFile == MaxFiles + 1   \* a file name no torrent file carries

\* ------------------------------------------------------------------ state
VARIABLES
    gen,               \* number of setup-effect runs so far; the current session
    ended,             \* the component is unmounted
    media,             \* the media prop of the last render
    isMounted,         \* per session: the effect's closure flag (l.318)
    hasCleanup,        \* per session: the effect run returned cleanup (l.485), not undefined (l.404)
    \* swarm engine
    client,            \* per session: the WebTorrent instance it created
    destroyCb,         \* per session: destroy() completion callbacks not yet run
    torrentClientRef,  \* torrentClientRef.current: 0 = null, g = engine of session g
    torrentRef,        \* torrentRef.current: 0 = null, g = torrent of session g
    addCb,             \* per session: the client.add callback
    torReady,          \* per session: torrent.ready
    listeners,         \* per session: handlers registered on the torrent
    metadataTimeoutId, \* per session: the 30 s timer (l.320, l.417)
    progressIntervalId,\* per session: the 1 s interval (l.319, l.456)
    torrentInfo, torrentStatus, torrentError, selectedFile, timeRemaining,
    \* asynchronous lookups
    fetches,           \* lookups in flight: [op, sess]
    epgData, geminiInfo, chapters, activeFileInfo,
    isEpgLoading, isGeminiLoading, isAnalyzingChapters, isFetchingFileInfo,
    duration,
    \* subtitles and blob URLs
    subtitleTracks, activeSubtitleTrack, availableSubtitleTracks,
    tracksToClean,     \* per session: the effect's closure copy (l.322)
    localFileUrl,      \* 0 = null, u = blob URL u
    localUrlSeen,      \* per session: localFileUrl as captured by cleanup's closure
    blobs,             \* blob URLs created so far: blobs[u] = [sess, kind]
    revoked,           \* blob URLs passed to URL.revokeObjectURL
    metaFired,         \* per session: its media produced 'loadedmetadata'
    \* download queue
    downloadQueue,     \* the state (queued updaters applied)
    queueSeen,         \* downloadQueue as captured by the last render
    queueDirty,        \* setDownloadQueue was called since the last render
    blobReqs,          \* per file name: getBlobURL requests whose callback is outstanding
    enqueues,          \* appends so far (bounds the model)
    \* playback position
    mediaId,           \* NoId = null
    resumeTime,        \* 0 = null
    stored,            \* the localStorage item of PLAYBACK_POSITION_KEY
    timeUpdateTimeoutRef, \* timeUpdateTimeoutRef.current: 0 = null, i = timer i
    posTimers,         \* the timers of l.652: [id, time, state, armedAt]
    writes,            \* calls of setPlaybackPosition / clearPlaybackPosition so far
    videoContent,      \* what the video element has as its source, NoId = none
    videoDuration,     \* video.duration, 0 = NaN (not known)
    \* text tracks of the media element
    inbandTracks,      \* labels of the text tracks the loaded media carries
    trackMode,         \* per text track of video.textTracks: its mode
    trackCues,         \* per text track: its cues (indices of cues)
    cues,              \* the cues made so far: [orig, startTime, endTime], in 0.1 s
    originalCueTimes,  \* originalCueTimesRef.current, per cue: NoTimes = no entry
    subtitleOffset,    \* subtitleSettings.offset, in 0.1 s
    \* chapters and seeking
    chapterItems,      \* the chapters state when it is not null: [timestamp, name]
    showSkipIntro,
    chapterSource,     \* the chapter list the metadata collaborator holds for the media
    seekTime,          \* the last value assigned to video.currentTime, NoSeek = none
    playRequested,     \* video.play() was called since the activation
    videoEl,           \* the media element: [paused, volume, muted, playbackRate, events]
    \* the observable playback state (l.180-185) and the cast hook (useChromecast)
    playing, volume, muted, playbackRate,
    castState,
    session,           \* the hook's session: FALSE = null
    castCalls,         \* calls of the cast SDK whose callback is outstanding
    \* download all as ZIP (l.789-820)
    isZipping,
    zipJobs,           \* runs of handleDownloadAllAsZip not yet settled: [reading, compressing]
    zipsStarted,       \* runs started so far (bounds the model)
    \* the live adapter (components/Player.tsx)
    currentChannel,    \* 0 = null, c = channel c of media.channels
    hlsAttached,       \* the Hls instances made and not destroyed: [channel, proxy, mounted, recoveries]
    hlsVar,            \* `hls` of the last run of the Player effect: 0 = null, i = hlsAttached[i]
    hlsSupported,      \* Hls.isSupported(); FALSE: the browser plays HLS natively
    initialChannel,    \* media.initialChannel of the live descriptors: 0 = not given, u = its URL
    \* the persistence layer (utils/storage.ts)
    cacheItem,         \* the localStorage item of a cache key: [kind, entries]
    listItem,          \* the localStorage item of a key read by one of the plain readers
    now,               \* Date.now()
    lastRead           \* the last read of the layer: [op, threw, value]

swarmRefs == <<client, destroyCb, torrentClientRef, torrentRef, addCb, torReady,
               listeners, metadataTimeoutId, progressIntervalId>>
playerState == <<torrentInfo, torrentStatus, torrentError, selectedFile, timeRemaining>>
lookupState == <<epgData, geminiInfo, chapters, activeFileInfo>>
lookupFlags == <<isEpgLoading, isGeminiLoading, isAnalyzingChapters, isFetchingFileInfo>>
subtitleState == <<subtitleTracks, activeSubtitleTrack, availableSubtitleTracks>>
blobState == <<tracksToClean, localFileUrl, localUrlSeen, blobs, revoked>>
mediaElement == <<metaFired, duration>>
queueState == <<downloadQueue, queueSeen, queueDirty, blobReqs, enqueues>>
sessionState == <<gen, ended, media, isMounted, hasCleanup>>
positionStore == <<stored, timeUpdateTimeoutRef, posTimers, writes>>
positionState == <<mediaId, resumeTime, videoContent, videoDuration, positionStore>>
textTrackState == <<inbandTracks, trackMode, trackCues>>
cueState == <<cues, originalCueTimes, subtitleOffset>>
introState == <<chapterItems, showSkipIntro, chapterSource>>
seekState == <<seekTime, playRequested, videoEl>>
storageState == <<cacheItem, listItem, now, lastRead>>
\* what the browser holds or the caller passes, and no player action writes
browserState == <<hlsSupported, storageState, initialChannel>>
transportState == <<playing, volume, muted, castState, session, castCalls>>
zipState == <<isZipping, zipJobs, zipsStarted>>
envState == <<browserState, transportState, playbackRate, zipState>>
liveState == <<currentChannel, hlsAttached, hlsVar, envState>>

vars == <<sessionState, swarmRefs, playerState, fetches, lookupState, lookupFlags,
          subtitleState, blobState, mediaElement, queueState, positionState,
          textTrackState, cueState, introState, seekState, liveState>>

\* ------------------------------------------------------------------ values
NoMedia == [type |-> "none", epgUrl |-> FALSE, mode |-> "none", initialFile |-> 0]
IptvInputs == {[type |-> "iptv", epgUrl |-> e, mode |-> "none", initialFile |-> 0] : e \in BOOLEAN}
LocalInputs == {[type |-> "local", epgUrl |-> FALSE, mode |-> "none", initialFile |-> 0]}
\* initialFile: 0 = undefined, a file of the torrent, or a name the torrent lacks
TorrentInputs ==
    {[type |-> "torrent", epgUrl |-> FALSE, mode |-> "stream", initialFile |-> f] :
        f \in {0, 1, MissingFile}}
    \cup {[type |-> "torrent", epgUrl |-> FALSE, mode |-> "download", initialFile |-> 0]}
MediaInputs == IptvInputs \cup LocalInputs \cup TorrentInputs

NoInfo == [infoHash |-> 0, snap |-> "none"]
NoFile == [sess |-> 0, name |-> 0]
NoTrack == [src |-> 0, label |-> 0]
Snaps == {"stalled", "moving", "complete"}
ErrKinds == {"invalid", "tracker", "other"}
Labels == {1, 2}
\* originalCueTimesRef.current.get(cue) of a cue the map lacks
NoTimes == [startTime |-> 0, endTime |-> 0]
\* start times of the cues as the subtitle source gives them, and their length
CueStarts == {5, 6}
CueLength == 1
\* the steps of the offset buttons (Controls.tsx l.167, l.169)
OffsetSteps == {0 - 1, 1}

\* chapter names, as the characters of the string
NameIntro == <<"I", "n", "t", "r", "o">>
NameEpisode == <<"E", "p", "i", "s", "o", "d", "e">>
ChapterNames == {NameIntro, NameEpisode}
\* chapter timestamps, in seconds
ChapterStamps == {0, 3, 10}
\* what getVideoChapters or the chapters cache delivers: any list, in any order
ChapterLists ==
    UNION {[1..n -> [timestamp : ChapterStamps, name : ChapterNames]] : n \in 0..MaxChapters}
\* a list in ascending order with the intro first
OrderedChapters ==
    <<[timestamp |-> 0, name |-> NameIntro], [timestamp |-> 3, name |-> NameEpisode],
      [timestamp |-> 10, name |-> NameEpisode]>>
NoSeek == 0 - 1

\* media identities (l.394, l.491, l.493)
NoId == [kind |-> "none", hash |-> 0, name |-> 0]
LocalId == [kind |-> "local", hash |-> 0, name |-> 0]
Channels == 1..MaxChannels
\* `iptv-channel-${currentChannel.url}` (l.491)
ChannelId(c) == [kind |-> "iptv", hash |-> 0, name |-> c - 1]
\* l.385-388: the channel a live session starts with is the first of its list
InitialChannel == 1
\* channel c of media.channels has the URL c; MissingUrl is the URL of no channel
MissingUrl == MaxChannels + 1
\* l.385-387: find(c => c.url === media.initialChannel?.url) when a channel is
\* remembered, 0 = undefined; else channels[0] of the list, which is not empty
InitialOf(remembered) ==
    IF remembered # 0
    THEN IF remembered \in Channels THEN remembered ELSE 0
    ELSE InitialChannel
IptvId == ChannelId(InitialChannel)
TorrentId(h, n) == [kind |-> "torrent", hash |-> h, name |-> n]
PosIds == {LocalId} \cup {ChannelId(c) : c \in Channels}
          \cup {TorrentId(h, n) : h \in Sessions, n \in Files}
\* video.duration of a content once its metadata is known; a live stream has Infinity
DurationOf(id) ==
    CASE id.kind = "iptv" -> 1000
      [] id.kind = "torrent" /\ id.name > 1 -> 100
      [] OTHER -> 10
\* video.currentTime at a 'timeupdate'
TimeInputs == {0, 3, 8, 10}
ResumeThreshold == 5
FinishedPercent == 95


\* ------------------------------------------------------------------ helpers
SrcsOf(tracks) == {tracks[i].src : i \in 1..Len(tracks)}

\* clearInterval / clearTimeout on an id: cancels it when it is still armed
ClearTimer(t) == IF t = "armed" THEN "cleared" ELSE t

InFlight(q) == \E i \in 1..Len(q) : q[i].status \in {"preparing", "downloading"}
HasName(q, name) == \E i \in 1..Len(q) : q[i].file = name
\* downloadQueue.find(item => item.status === 'queued'): index of the first one, 0 if none
NextInQueue(q) ==
    IF \E i \in 1..Len(q) : q[i].status = "queued"
    THEN CHOOSE i \in 1..Len(q) :
            /\ q[i].status = "queued"
            /\ \A j \in 1..(i - 1) : q[j].status # "queued"
    ELSE 0
\* q.map(i => i.file.name === name ? { ...i, status } : i); trail records the assignment
SetStatus(q, name, st) ==
    [i \in 1..Len(q) |->
        IF q[i].file = name
        THEN [q[i] EXCEPT !.status = st, !.trail = Append(@, st)]
        ELSE q[i]]
SetError(q, name, msg) ==
    [i \in 1..Len(q) |->
        IF q[i].file = name
        THEN [q[i] EXCEPT !.status = "error", !.error = msg, !.trail = Append(@, "error")]
        ELSE q[i]]
SetUrl(q, name) ==
    [i \in 1..Len(q) |-> IF q[i].file = name THEN [q[i] EXCEPT !.url = 1] ELSE q[i]]
\* handleSaveFile(url, name): the item of that name, if any, is the one saved
MarkSaved(q, name) ==
    [i \in 1..Len(q) |-> IF q[i].file = name THEN [q[i] EXCEPT !.saves = @ + 1] ELSE q[i]]
NewItem(f) == [file |-> f, status |-> "queued", error |-> "", url |-> 0,
               trail |-> <<"queued">>, saves |-> 0]

\* ---- the position store (utils/storage.ts l.110-148)
\* localStorage.getItem(PLAYBACK_POSITION_KEY): no item, an item JSON.parse rejects, or
\* the JSON text of a positions object.  positions[id] is <<>> for a missing key.
NoPositions == [id \in PosIds |-> <<>>]
AbsentItem == [kind |-> "absent", positions |-> NoPositions]
CorruptItem == [kind |-> "corrupt", positions |-> NoPositions]
\* JSON.stringify of a positions object and JSON.parse of an item that parses
Stringify(positions) == [kind |-> "json", positions |-> positions]
Parse(item) == item.positions
\* getPlaybackPosition: <<>> is null
GetPlaybackPosition(item, id) ==
    IF item.kind # "json" THEN <<>>
    ELSE IF Parse(item)[id] = <<>> \/ Parse(item)[id][1] = 0 THEN <<>>
    ELSE Parse(item)[id]
\* a store that starts from an empty object at every write
SetPlaybackPositionAfresh(item, id, time) ==
    Stringify([NoPositions EXCEPT ![id] = <<time>>])
\* setPlaybackPosition
SetPlaybackPosition(item, id, time) ==
    LET positions == IF item.kind = "json" THEN Parse(item) ELSE NoPositions
    IN Stringify([positions EXCEPT ![id] = <<time>>])
\* clearPlaybackPosition
ClearPlaybackPosition(item, id) ==
    IF item.kind # "json" THEN item
    ELSE Stringify([Parse(item) EXCEPT ![id] = <<>>])


\* ---- the other items of localStorage (utils/storage.ts)
\* a cache item holds per key no entry (<<>>) or <<[data, expiresAt]>> (l.22-30)
CacheKeys == {1, 2}
CacheData == {1, 2}
NoEntries == [k \in CacheKeys |-> <<>>]
AbsentCache == [kind |-> "absent", entries |-> NoEntries]
CorruptCache == [kind |-> "corrupt", entries |-> NoEntries]
StringifyCache(entries) == [kind |-> "json", entries |-> entries]
\* the item of a plain key: missing, a text JSON.parse rejects, or the JSON text of a value
StoredValue == <<1>>
AbsentValue == [kind |-> "absent", value |-> <<>>]
CorruptValue == [kind |-> "corrupt", value |-> <<>>]
JsonValue == [kind |-> "json", value |-> StoredValue]
\* what a read gives its caller: a value, or an exception that leaves the function
Returns(op, v) == [op |-> op, threw |-> FALSE, value |-> v]
Throws(op) == [op |-> op, threw |-> TRUE, value |-> <<>>]
NoRead == [op |-> "none", threw |-> FALSE, value |-> <<>>]
\* the readers with try/catch: getSubtitleSettings (l.89-98), getLastWatchedMedia
\* (l.164-173), getRecentMagnets (l.205-224); the default settings and null are <<>> here
GuardedReaders == {"getSubtitleSettings", "getLastWatchedMedia", "getRecentMagnets"}
\* the readers of the form `stored ? JSON.parse(stored) : []` (l.186-189, l.241-244, l.271-274)
PlainReaders == {"getIptvHistory", "getFavoritePlaylists", "getFavoriteChannels"}
\* [EXAMPLE_MAGNET] (l.209-211)
ExampleMagnets == <<0>>
ReadValue(op, item) ==
    IF item.kind = "absent"
    THEN Returns(op, IF op = "getRecentMagnets" THEN ExampleMagnets ELSE <<>>)
    ELSE IF item.kind = "json" THEN Returns(op, item.value)
    ELSE IF op \in GuardedReaders THEN Returns(op, <<>>)
    ELSE Throws(op)
\* getFromCache (l.33-56): the value returned and the item it leaves
GetFromCache(item, url, time) ==
    IF item.kind = "absent" THEN [result |-> <<>>, item |-> item]
    ELSE IF item.kind = "corrupt" THEN [result |-> <<>>, item |-> AbsentCache]
    ELSE LET entry == item.entries[url]
         IN IF entry # <<>> /\ time < entry[1].expiresAt
            THEN [result |-> <<entry[1].data>>, item |-> item]
            ELSE IF entry # <<>>
                 THEN [result |-> <<>>,
                       item |-> StringifyCache([item.entries EXCEPT ![url] = <<>>])]
                 ELSE [result |-> <<>>, item |-> item]
\* a cache that keeps only the entry it writes
SaveToCacheAfresh(item, url, data, time, durationMs) ==
    StringifyCache([NoEntries EXCEPT ![url] = <<[data |-> data, expiresAt |-> time + durationMs]>>])
\* saveToCache (l.58-77)
SaveToCache(item, url, data, time, durationMs) ==
    LET cache == IF item.kind = "json" THEN item.entries ELSE NoEntries
    IN StringifyCache([cache EXCEPT ![url] = <<[data |-> data, expiresAt |-> time + durationMs]>>])
InitStorage ==
    /\ cacheItem = AbsentCache /\ listItem = AbsentValue /\ now = 0 /\ lastRead = NoRead
    /\ initialChannel = 0

\* The media element.  volume is in halves: FullVolume is 1.0.  events are the tasks
\* queued on the element and not yet dispatched to the listeners of l.693-702.
FullVolume == 2
NoJobs == [reading |-> 0, compressing |-> 0]
NewVideo == [paused |-> TRUE, volume |-> FullVolume, muted |-> FALSE, playbackRate |-> 1,
             events |-> <<>>]
\* video.play(): a paused element starts and queues 'play'
Play(v) == IF v.paused THEN [v EXCEPT !.paused = FALSE, !.events = Append(@, "play")] ELSE v
\* video.pause(): a playing element stops and queues 'pause'
Pause(v) == IF v.paused THEN v ELSE [v EXCEPT !.paused = TRUE, !.events = Append(@, "pause")]
\* video.load() (l.347) or a new src: the element's queued tasks are removed, it is
\* paused without a 'pause' event and playbackRate returns to defaultPlaybackRate
Load(v) == [v EXCEPT !.paused = TRUE, !.playbackRate = 1,
                     !.events = IF v.playbackRate # 1 THEN <<"ratechange">> ELSE <<>>]
\* the cast effect (l.209-245) after a render in which one of its dependencies changed:
\* only a live channel is handed to castMedia, which pauses the element (l.414)
CastsMedia(state, sess, m, ch) == state = "CONNECTED" /\ sess /\ m.type = "iptv" /\ ch # 0
\* the element after the effects of one update: the new source is attached, the cast
\* effect runs in the same render and the saved-position effect in the next
VideoAfterEffects(v, loaded, casts, plays) ==
    LET a == IF loaded THEN Load(v) ELSE v
        b == IF casts THEN Pause(a) ELSE a
    IN IF plays THEN Play(b) ELSE b
\* the effect's cleanup function exists and runs for session p
CleanupRuns(p) == p > 0 /\ hasCleanup[p]

\* ------------------------------------------------------------------ Init
InitComponent ==
    /\ gen = 0 /\ ended = FALSE /\ media = NoMedia
    /\ isMounted = [g \in Sessions |-> FALSE]
    /\ hasCleanup = [g \in Sessions |-> FALSE]
    /\ client = [g \in Sessions |-> "none"]
    /\ destroyCb = [g \in Sessions |-> 0]
    /\ torrentClientRef = 0 /\ torrentRef = 0
    /\ addCb = [g \in Sessions |-> "none"]
    /\ torReady = [g \in Sessions |-> FALSE]
    /\ listeners = [g \in Sessions |-> "none"]
    /\ metadataTimeoutId = [g \in Sessions |-> "unset"]
    /\ progressIntervalId = [g \in Sessions |-> "unset"]
    /\ torrentInfo = NoInfo /\ torrentStatus = "Initializing..."
    /\ torrentError = "null" /\ selectedFile = NoFile
    /\ timeRemaining = "Calculating..."
    /\ fetches = {}
    /\ epgData = 0 /\ geminiInfo = 0 /\ chapters = 0 /\ activeFileInfo = 0
    /\ isEpgLoading = FALSE /\ isGeminiLoading = FALSE
    /\ isAnalyzingChapters = FALSE /\ isFetchingFileInfo = 0
    /\ duration = 0
    /\ subtitleTracks = <<>> /\ activeSubtitleTrack = NoTrack
    /\ availableSubtitleTracks = <<>>
    /\ tracksToClean = [g \in Sessions |-> {}]
    /\ localFileUrl = 0
    /\ localUrlSeen = [g \in Sessions |-> 0]
    /\ blobs = <<>> /\ revoked = {}
    /\ metaFired = [g \in Sessions |-> FALSE]
    /\ downloadQueue = <<>> /\ queueSeen = <<>> /\ queueDirty = FALSE
    /\ blobReqs = [f \in Files |-> 0]
    /\ enqueues = 0
    /\ mediaId = NoId /\ resumeTime = 0
    /\ timeUpdateTimeoutRef = 0 /\ posTimers = <<>> /\ writes = 0
    /\ videoContent = NoId /\ videoDuration = 0
    /\ inbandTracks = <<>> /\ trackMode = <<>> /\ trackCues = <<>>
    /\ cues = <<>> /\ originalCueTimes = <<>> /\ subtitleOffset = 0
    /\ chapterItems = <<>> /\ showSkipIntro = FALSE
    /\ seekTime = NoSeek /\ playRequested = FALSE
    /\ videoEl = NewVideo
    /\ playing = FALSE /\ volume = FullVolume /\ muted = FALSE /\ playbackRate = 1
    /\ castState = "NO_DEVICES_AVAILABLE" /\ session = FALSE /\ castCalls = {}
    /\ isZipping = FALSE /\ zipJobs = NoJobs /\ zipsStarted = 0
    /\ currentChannel = 0 /\ hlsAttached = <<>> /\ hlsVar = 0
\* the player is constructed in a browser profile that holds no positions yet
Init ==
    /\ InitComponent /\ stored = AbsentItem /\ chapterSource = OrderedChapters
    /\ hlsSupported = TRUE /\ InitStorage


\* ------------------------------------------------------------------ the live adapter

\* an attemptLoad that leaves the instance in place
LoadersKept(l, v) == l
\* `if (hls) hls.destroy()` (Player.tsx l.44-46, l.17-20): the instance `hls` names
\* leaves the media element; a destroyed instance emits no further event
LoadersAfterDestroy(l, v) ==
    IF v \in 1..Len(l) THEN [i \in 1..(Len(l) - 1) |-> IF i < v THEN l[i] ELSE l[i + 1]] ELSE l
\* attemptLoad (l.40-94) in a mounted run; the result is hlsAttached and hlsVar.  Without
\* Hls support the URL becomes video.src (l.88-93) and `hls` stays as it is.
AttemptLoad(l, v, c, isProxyAttempt) ==
    IF hlsSupported
    THEN LET kept == LoadersAfterDestroy(l, v)
         IN [loaders |-> Append(kept, [channel |-> c, proxy |-> isProxyAttempt,
                                       mounted |-> TRUE, recoveries |-> 0]),
             var |-> Len(kept) + 1]
    ELSE [loaders |-> l, var |-> v]
\* a cleanup that leaves the instance attached
PlayerCleanupNone(l, v) == [loaders |-> l, var |-> 0]
\* cleanup (l.15-21) of the last run of the effect
PlayerCleanup(l, v) ==
    LET kept == LoadersAfterDestroy(l, v)
    IN [loaders |-> [i \in 1..Len(kept) |-> [kept[i] EXCEPT !.mounted = FALSE]], var |-> 0]
\* the effect (l.11-101) after a render with a new channel prop: cleanup of the last
\* run, then the body; c = 0: no channel (l.23-25)
PlayerEffect(l, v, c) ==
    LET clean == PlayerCleanup(l, v)
    IN IF c = 0 THEN clean ELSE AttemptLoad(clean.loaders, clean.var, c, FALSE)

\* ------------------------------------------------------------------ session setup / teardown

\* cleanup (l.337-353) of session p, when it runs: the values it leaves
IsMountedAfterCleanup(p) ==
    [g \in Sessions |-> IF g = p /\ CleanupRuns(p) THEN FALSE ELSE isMounted[g]]
ProgressIntervalAfterCleanup(p) ==
    [g \in Sessions |-> IF g = p /\ CleanupRuns(p)
                        THEN ClearTimer(progressIntervalId[g]) ELSE progressIntervalId[g]]
MetadataTimeoutAfterCleanup(p) ==
    [g \in Sessions |-> IF g = p /\ CleanupRuns(p)
                        THEN ClearTimer(metadataTimeoutId[g]) ELSE metadataTimeoutId[g]]
\* l.342-344: destroy() is called on whatever engine torrentClientRef.current holds
CleanupDestroys(p) == CleanupRuns(p) /\ torrentClientRef # 0
ClientAfterCleanup(p) ==
    [g \in Sessions |-> IF CleanupDestroys(p) /\ g = torrentClientRef /\ client[g] = "live"
                        THEN "destroying" ELSE client[g]]
DestroyCbAfterCleanup(p) ==
    [g \in Sessions |-> IF CleanupDestroys(p) /\ g = torrentClientRef
                        THEN destroyCb[g] + 1 ELSE destroyCb[g]]
\* l.345-347 and l.352: the URLs cleanup revokes are the ones its closure captured
CleanupRevokes(p) ==
    IF CleanupRuns(p) THEN ({localUrlSeen[p]} \cup tracksToClean[p]) \ {0} ELSE {}

\* the mediaId effect (l.489-495); cur: the state it leaves alone when no branch applies
MediaIdEffect(m, ch, info, sel, cur) ==
    IF m.type = "iptv" /\ ch # 0 THEN ChannelId(ch)
    ELSE IF m.type = "torrent" /\ info # NoInfo /\ sel # NoFile
         THEN TorrentId(info.infoHash, sel.name)
         ELSE cur
\* the saved-position effect (l.498-506) runs when mediaId changed; rt: resumeTime before
SavedPositionEffect(old, new, rt) ==
    IF new # old /\ new # NoId
    THEN LET savedTime == GetPlaybackPosition(stored, new)
         IN IF savedTime # <<>> /\ savedTime[1] > ResumeThreshold THEN savedTime[1] ELSE rt
    ELSE rt
\* mediaId once the renders an activation starts have settled: l.329 resets it, the
\* local branch sets it (l.395), and the mediaId effect of the same commit still sees
\* the torrentInfo and selectedFile of the previous session
ActivatedMediaId(m) ==
    IF m.type = "local" THEN LocalId
    ELSE MediaIdEffect(m, IF m.type = "iptv" THEN InitialOf(initialChannel) ELSE 0,
                       torrentInfo, selectedFile, NoId)
\* clearTimeout(timeUpdateTimeoutRef.current) of cleanup (l.341); the ref keeps the id
PosTimersAfterCleanup(p) ==
    [i \in 1..Len(posTimers) |->
        IF CleanupRuns(p) /\ i = timeUpdateTimeoutRef
        THEN [posTimers[i] EXCEPT !.state = IF @ \in {"armed", "due"} THEN "cleared" ELSE @]
        ELSE posTimers[i]]
\* ---- text tracks and cues
\* video.textTracks, by label: the <track> elements rendered from the subtitle tracks
\* (l.1021) come first, then the tracks of the media resource
TextTracksOf(tracks, inband) == [i \in 1..Len(tracks) |-> tracks[i].label] \o inband
\* the tracks of <track> elements / of the media resource in a per-track sequence
ExternalPart(s) == SubSeq(s, 1, Len(subtitleTracks))
InbandPart(s) == SubSeq(s, Len(subtitleTracks) + 1, Len(s))
\* the visibility effect (l.856-864); src `embedded-${i}-${label}-...` is 0 - (i + 1)
\* for the 0-based i of the code, which is the 1-based index here
VisibilityEffect(active, labels) ==
    [i \in 1..Len(labels) |->
        IF active # NoTrack
           /\ (labels[i] = active.label \/ (active.src = 0 - i /\ labels[i] = active.label))
        THEN "showing" ELSE "hidden"]
\* Array.from(video.textTracks).find(t => t.label === label): its index, 0 = undefined
FoundTrack(label, labels) ==
    IF \E i \in 1..Len(labels) : labels[i] = label
    THEN CHOOSE i \in 1..Len(labels) :
            /\ labels[i] = label
            /\ \A j \in 1..(i - 1) : labels[j] # label
    ELSE 0
\* a TextTrackCueList is kept in order of start time, end time, then insertion
CueBefore(cs, a, b) ==
    \/ cs[a].startTime < cs[b].startTime
    \/ cs[a].startTime = cs[b].startTime /\ cs[a].endTime < cs[b].endTime
    \/ cs[a].startTime = cs[b].startTime /\ cs[a].endTime = cs[b].endTime /\ a < b
\* track.cues[0] of a track whose cues are S (not empty)
FirstCue(S, cs) == CHOOSE a \in S : \A b \in S \ {a} : CueBefore(cs, a, b)
\* originalCueTimesRef.current.has(track.cues[0]); has(undefined) for an empty list
HasFirstCue(origs, S, cs) == S # {} /\ origs[FirstCue(S, cs)] # NoTimes
\* l.735-739: when the first cue has no entry, every cue of the track gets one
RecordOriginals(origs, S, cs) ==
    IF ~HasFirstCue(origs, S, cs)
    THEN [c \in 1..Len(cs) |->
            IF c \in S
            THEN [startTime |-> cs[c].startTime, endTime |-> cs[c].endTime]
            ELSE origs[c]]
    ELSE origs
\* l.740-746
ShiftCues(cs, origs, S, offset) ==
    [c \in 1..Len(cs) |->
        IF c \in S /\ origs[c] # NoTimes
        THEN [cs[c] EXCEPT !.startTime = origs[c].startTime + offset,
                           !.endTime = origs[c].endTime + offset]
        ELSE cs[c]]
\* the applyOffset effect (l.728-753) on the text tracks given by labels, modes and
\* tcues: track.cues is null for a disabled track, and the 'load' listener of l.751 is
\* put on a TextTrack, which gets no such event
ApplyOffsetEffect(active, offset, labels, modes, tcues, cs, origs) ==
    LET k == FoundTrack(active.label, labels)
    IN IF active = NoTrack \/ k = 0 THEN [cues |-> cs, originalCueTimes |-> origs]
       ELSE IF modes[k] = "disabled" THEN [cues |-> cs, originalCueTimes |-> origs]
       ELSE LET rec == RecordOriginals(origs, tcues[k], cs)
            IN [cues |-> ShiftCues(cs, rec, tcues[k], offset), originalCueTimes |-> rec]

\* ---- chapters and the intro window
\* String.prototype.toLowerCase on the letters the names use
LowerChar(ch) ==
    CASE ch = "I" -> "i" [] ch = "E" -> "e" [] OTHER -> ch
ToLowerCase(s) == [i \in 1..Len(s) |-> LowerChar(s[i])]
\* String.prototype.includes
Includes(s, sub) ==
    \E i \in 0..(Len(s) - Len(sub)) : SubSeq(s, i + 1, i + Len(sub)) = sub
IsIntroName(name) == Includes(ToLowerCase(name), <<"i", "n", "t", "r", "o">>)
\* chapters.find(c => c.name.toLowerCase().includes('intro')): its index, 0 = undefined
FindIntro(c) ==
    IF \E i \in 1..Len(c) : IsIntroName(c[i].name)
    THEN CHOOSE i \in 1..Len(c) :
            /\ IsIntroName(c[i].name)
            /\ \A j \in 1..(i - 1) : ~IsIntroName(c[j].name)
    ELSE 0
\* intro ? chapters.find(c => c.timestamp > intro.timestamp) : null; 0 = none
FindIntroEnd(c) ==
    LET i == FindIntro(c)
    IN IF i # 0 /\ \E j \in 1..Len(c) : c[j].timestamp > c[i].timestamp
       THEN CHOOSE j \in 1..Len(c) :
               /\ c[j].timestamp > c[i].timestamp
               /\ \A k \in 1..(j - 1) : ~(c[k].timestamp > c[i].timestamp)
       ELSE 0
\* the condition of l.644
IntroShown(c, time) ==
    /\ FindIntro(c) # 0 /\ FindIntroEnd(c) # 0
    /\ time > c[FindIntro(c)].timestamp
    /\ time < c[FindIntroEnd(c)].timestamp
\* l.641-649: showSkipIntro after a 'timeupdate'; ch = 0: chapters is null
SkipIntroAfterUpdate(ch, c, time, shown) == IF ch # 0 THEN IntroShown(c, time) ELSE shown
\* the else branch of the saved-position effect (l.503-505) calls video.play()
PlayAfterSavedPosition(old, new, played) ==
    IF new # old /\ new # NoId
    THEN LET savedTime == GetPlaybackPosition(stored, new)
         IN IF savedTime # <<>> /\ savedTime[1] > ResumeThreshold THEN played ELSE TRUE
    ELSE played

\* what the effects after a swarm callback or a file choice leave: the mediaId effect,
\* the saved-position effect and renderTo of the selected-file effect (l.526)
IdEffects ==
    /\ mediaId' = MediaIdEffect(media', currentChannel', torrentInfo', selectedFile', mediaId)
    /\ resumeTime' = SavedPositionEffect(mediaId, mediaId', resumeTime)
    /\ IF selectedFile' # selectedFile /\ selectedFile' # NoFile
          /\ media'.type = "torrent" /\ media'.mode = "stream"
       THEN /\ videoContent' = TorrentId(selectedFile'.sess, selectedFile'.name)
            /\ videoDuration' = 0
       ELSE UNCHANGED <<videoContent, videoDuration>>
    /\ UNCHANGED positionStore
    \* a new source drops the text tracks of the media resource
    /\ IF videoContent' # videoContent
       THEN /\ inbandTracks' = <<>>
            /\ trackMode' = ExternalPart(trackMode)
            /\ trackCues' = ExternalPart(trackCues)
       ELSE UNCHANGED textTrackState
    /\ UNCHANGED cueState
    /\ playRequested' = PlayAfterSavedPosition(mediaId, mediaId', playRequested)
    /\ videoEl' = VideoAfterEffects(videoEl, videoContent' # videoContent,
                     (selectedFile' # selectedFile \/ currentChannel' # currentChannel)
                     /\ CastsMedia(castState, session, media', currentChannel'),
                     PlayAfterSavedPosition(mediaId, mediaId', FALSE))

\* The download-queue effect (l.765-781) as it runs in a render of queue q
QueueEffectFires(q) == ~InFlight(q) /\ NextInQueue(q) # 0
QueueEffectFile(q) == q[NextInQueue(q)].file

\* A render with a new media prop: cleanup of the previous run of the setup effect,
\* then the effect body (l.316-486).  lib: window.WebTorrent is defined; hit: the
\* cache lookup of the session's first metadata request is a hit.
Activate(m, lib, hit) ==
    /\ ~ended /\ gen < MaxSessions
    /\ m.type = "local" => Len(blobs) < MaxUrls
    /\ LET p == gen
           n == gen + 1
           engine == m.type = "torrent" /\ lib
           epgLoad == m.type = "iptv" /\ m.epgUrl
           newUrl == Len(blobs) + 1
       IN
       /\ gen' = n /\ media' = m /\ UNCHANGED ended
       /\ isMounted' = [g \in Sessions |-> IF g = n THEN TRUE ELSE IsMountedAfterCleanup(p)[g]]
       /\ hasCleanup' = [hasCleanup EXCEPT ![n] = ~(m.type = "torrent" /\ ~lib)]
       /\ progressIntervalId' = ProgressIntervalAfterCleanup(p)
       /\ metadataTimeoutId' = MetadataTimeoutAfterCleanup(p)
       /\ client' = [g \in Sessions |-> IF g = n /\ engine THEN "live" ELSE ClientAfterCleanup(p)[g]]
       /\ destroyCb' = DestroyCbAfterCleanup(p)
       /\ torrentClientRef' = IF engine THEN n ELSE torrentClientRef
       /\ addCb' = [addCb EXCEPT ![n] = IF engine THEN "pending" ELSE "none"]
       /\ UNCHANGED <<torrentRef, torReady, listeners>>
       \* l.322-334, l.355-364: the state reset
       /\ tracksToClean' = [tracksToClean EXCEPT ![n] = SrcsOf(subtitleTracks)]
       /\ subtitleTracks' = <<>> /\ activeSubtitleTrack' = NoTrack
       /\ availableSubtitleTracks' = <<>>
       /\ chapters' = 0 /\ isAnalyzingChapters' = FALSE
       /\ torrentInfo' = NoInfo /\ selectedFile' = NoFile
       /\ torrentStatus' = "Initializing..."
       /\ torrentError' = IF m.type = "torrent" /\ ~lib THEN "no-library" ELSE "null"
       /\ UNCHANGED <<timeRemaining, activeFileInfo, isFetchingFileInfo, metaFired, duration>>
       /\ localUrlSeen' = [localUrlSeen EXCEPT ![n] = localFileUrl]
       /\ revoked' = revoked \cup CleanupRevokes(p) \cup ({localFileUrl} \ {0})
       /\ blobs' = IF m.type = "local" THEN Append(blobs, [sess |-> n, kind |-> "local"]) ELSE blobs
       /\ localFileUrl' = IF m.type = "local" THEN newUrl ELSE 0
       \* l.389-391 loadEpg, l.400 fetchGeminiData
       /\ epgData' = IF epgLoad /\ hit THEN n ELSE epgData
       /\ isEpgLoading' = IF epgLoad THEN ~hit ELSE isEpgLoading
       /\ geminiInfo' = IF m.type = "local" /\ hit THEN n ELSE 0
       /\ isGeminiLoading' = (m.type = "local" /\ ~hit)
       /\ fetches' = fetches
            \cup (IF epgLoad /\ ~hit THEN {[op |-> "epg", sess |-> n]} ELSE {})
            \cup (IF m.type = "local" /\ ~hit THEN {[op |-> "gemini", sess |-> n]} ELSE {})
       \* the queue effect of this render runs after the setup effect and sees the
       \* queue of the render; its updater is applied after the reset of l.358
       /\ queueSeen' = downloadQueue
       /\ downloadQueue' = <<>>
       /\ queueDirty' = TRUE
       /\ blobReqs' = IF queueDirty /\ QueueEffectFires(downloadQueue)
                      THEN [blobReqs EXCEPT ![QueueEffectFile(downloadQueue)] = @ + 1]
                      ELSE blobReqs
       /\ UNCHANGED enqueues
       \* l.329-330, l.395 and the effects of l.489-506; l.341; l.348-349, l.397
       /\ mediaId' = ActivatedMediaId(m)
       /\ resumeTime' = SavedPositionEffect(mediaId, mediaId', 0)
       /\ posTimers' = PosTimersAfterCleanup(p)
       /\ UNCHANGED <<stored, timeUpdateTimeoutRef, writes>>
       /\ videoContent' = IF m.type = "local" THEN LocalId
                          ELSE IF m.type = "iptv" /\ InitialOf(initialChannel) # 0
                               THEN ChannelId(InitialOf(initialChannel)) ELSE NoId
       /\ videoDuration' = 0
       \* no <track> element and no track of the old media is left; the entries
       \* originalCueTimesRef keeps for their cues are never looked up again
       /\ inbandTracks' = <<>> /\ trackMode' = <<>> /\ trackCues' = <<>>
       /\ cues' = <<>> /\ originalCueTimes' = <<>>
       /\ UNCHANGED subtitleOffset
       \* l.333 setChapters(null); nothing sets showSkipIntro
       /\ chapterItems' = <<>>
       /\ UNCHANGED <<showSkipIntro, chapterSource>>
       /\ seekTime' = NoSeek
       /\ playRequested' = PlayAfterSavedPosition(mediaId, mediaId', FALSE)
       \* l.355, l.385-388; <Player> is rendered for live media only (l.1017): its effect
       \* runs again with the channel object of the new descriptor
       /\ currentChannel' = IF m.type = "iptv" THEN InitialOf(initialChannel) ELSE 0
       /\ LET player == PlayerEffect(hlsAttached, hlsVar, currentChannel')
          IN hlsAttached' = player.loaders /\ hlsVar' = player.var
       \* l.346-347 in the cleanup of the session before; the cast effect sees the
       \* channel object of the new descriptor
       /\ videoEl' = VideoAfterEffects(IF CleanupRuns(p) THEN Load(videoEl) ELSE videoEl,
                        m.type # "torrent", CastsMedia(castState, session, m, currentChannel'),
                        PlayAfterSavedPosition(mediaId, mediaId', FALSE))
       \* l.328
       /\ playbackRate' = 1
       /\ UNCHANGED <<browserState, transportState, zipState>>

\* The component is removed (onBack): cleanup of the last run of the setup effect
Unmount ==
    /\ ~ended /\ gen > 0
    /\ ended' = TRUE
    /\ isMounted' = IsMountedAfterCleanup(gen)
    /\ progressIntervalId' = ProgressIntervalAfterCleanup(gen)
    /\ metadataTimeoutId' = MetadataTimeoutAfterCleanup(gen)
    /\ client' = ClientAfterCleanup(gen)
    /\ destroyCb' = DestroyCbAfterCleanup(gen)
    /\ revoked' = revoked \cup CleanupRevokes(gen)
    /\ posTimers' = PosTimersAfterCleanup(gen)
    /\ IF CleanupRuns(gen)
       THEN videoContent' = NoId /\ videoDuration' = 0
       ELSE UNCHANGED <<videoContent, videoDuration>>
    /\ UNCHANGED <<mediaId, resumeTime, stored, timeUpdateTimeoutRef, writes>>
    /\ UNCHANGED <<gen, media, hasCleanup, torrentClientRef, torrentRef, addCb, torReady,
                   listeners, playerState, fetches, lookupState, lookupFlags, subtitleState,
                   tracksToClean, localFileUrl, localUrlSeen, blobs, mediaElement, queueState,
                   textTrackState, cueState, introState, seekTime, playRequested,
                   currentChannel, envState>>
    \* l.345-348
    /\ videoEl' = IF CleanupRuns(gen) THEN Load(videoEl) ELSE videoEl
    /\ LET player == PlayerCleanup(hlsAttached, hlsVar)
       IN hlsAttached' = player.loaders /\ hlsVar' = player.var


\* ------------------------------------------------------------------ swarm adapter

\* a callback that lacks the isMounted test
CallbackUnguarded(g) == TRUE
\* `if (!isMounted) return` at the head of every engine callback
\* (l.411, l.418, l.424, l.430, l.460, l.471)
CallbackLive(g) == isMounted[g]

\* l.443-447
TimeRemainingOf(s) ==
    CASE s = "complete" -> "Done"
      [] s = "moving" -> "eta"
      [] OTHER -> "Infinity"
\* l.473-476
UserMessage(k) ==
    CASE k = "invalid" -> "invalid-identifier"
      [] k = "tracker" -> "tracker-problem"
      [] OTHER -> "Error: message"
\* a pre-selection that binds the first file of the list whatever its name
SelectedFirstFile ==
    IF media.initialFile # 0 THEN [sess |-> gen, name |-> 1] ELSE selectedFile
\* l.451-454: media.initialFile is bound when a file of that name exists
SelectedAfterReady ==
    IF media.initialFile \in Files
    THEN [sess |-> gen, name |-> media.initialFile]
    ELSE selectedFile
\* l.518-531: the selected-file effect looks the file up when no info is shown
SelectLookup(sel, info) ==
    IF sel # NoFile /\ media.type = "torrent" /\ media.mode = "stream" /\ info = 0
    THEN {[op |-> "select", sess |-> gen]}
    ELSE {}

otherThanSwarm == <<subtitleState, blobState, mediaElement, queueState, sessionState,
                    epgData, chapters, activeFileInfo, introState, seekTime,
                    isEpgLoading, isAnalyzingChapters, isFetchingFileInfo, liveState>>

\* The callback of client.add (l.410-482); s: the torrent's figures at that moment
AddCallback(g, hit, s) ==
    /\ addCb[g] = "pending"
    /\ addCb' = [addCb EXCEPT ![g] = "delivered"]
    /\ IF ~CallbackLive(g)
       THEN UNCHANGED <<torrentRef, listeners, metadataTimeoutId, progressIntervalId,
                        geminiInfo, isGeminiLoading, fetches, playerState>>
       ELSE /\ torrentRef' = g
            /\ geminiInfo' = IF hit THEN g ELSE geminiInfo
            /\ isGeminiLoading' = IF hit THEN isGeminiLoading ELSE TRUE
            /\ IF torReady[g]
               THEN \* l.468: handleTorrentReady runs at once
                    /\ listeners' = [listeners EXCEPT ![g] = "ready"]
                    /\ metadataTimeoutId' = [metadataTimeoutId EXCEPT ![g] = "cleared"]
                    /\ progressIntervalId' = [progressIntervalId EXCEPT ![g] = "armed"]
                    /\ torrentError' = "null"
                    /\ torrentStatus' = "Downloading..."
                    /\ torrentInfo' = [infoHash |-> g, snap |-> s]
                    /\ timeRemaining' = TimeRemainingOf(s)
                    /\ selectedFile' = SelectedAfterReady
               ELSE /\ listeners' = [listeners EXCEPT ![g] = "added"]
                    /\ metadataTimeoutId' = [metadataTimeoutId EXCEPT ![g] = "armed"]
                    /\ torrentStatus' = "Fetching torrent metadata..."
                    /\ UNCHANGED <<progressIntervalId, torrentError, torrentInfo,
                                   timeRemaining, selectedFile>>
            /\ fetches' = fetches
                 \cup (IF hit THEN {} ELSE {[op |-> "gemini", sess |-> g]})
                 \cup SelectLookup(selectedFile', geminiInfo')
    /\ UNCHANGED <<client, destroyCb, torrentClientRef, torReady, otherThanSwarm>>
    /\ IdEffects

\* The torrent becomes ready and emits 'ready' (l.467, l.423-465)
TorrentReady(g, s) ==
    /\ client[g] # "none" /\ ~torReady[g]
    /\ torReady' = [torReady EXCEPT ![g] = TRUE]
    /\ IF listeners[g] = "added" /\ CallbackLive(g)
       THEN /\ listeners' = [listeners EXCEPT ![g] = "ready"]
            /\ metadataTimeoutId' = [metadataTimeoutId EXCEPT ![g] = ClearTimer(@)]
            /\ progressIntervalId' = [progressIntervalId EXCEPT ![g] = "armed"]
            /\ torrentError' = "null"
            /\ torrentStatus' = "Downloading..."
            /\ torrentInfo' = [infoHash |-> g, snap |-> s]
            /\ timeRemaining' = TimeRemainingOf(s)
            /\ selectedFile' = SelectedAfterReady
            /\ fetches' = fetches \cup SelectLookup(selectedFile', geminiInfo)
       ELSE UNCHANGED <<listeners, metadataTimeoutId, progressIntervalId, fetches, playerState>>
    /\ UNCHANGED <<client, destroyCb, torrentClientRef, torrentRef, addCb,
                   geminiInfo, isGeminiLoading, otherThanSwarm>>
    /\ IdEffects

\* updateUiState (l.429-448) as run by a 'download' or 'upload' event (l.457-458)
TorrentTransfer(g, s) ==
    /\ listeners[g] = "ready"
    /\ IF CallbackLive(g)
       THEN /\ torrentInfo' = [infoHash |-> g, snap |-> s]
            /\ timeRemaining' = TimeRemainingOf(s)
       ELSE UNCHANGED <<torrentInfo, timeRemaining>>
    /\ UNCHANGED <<torrentStatus, torrentError, selectedFile, swarmRefs, fetches,
                   geminiInfo, isGeminiLoading, otherThanSwarm>>
    /\ IdEffects

\* updateUiState as run by the 1 s interval (l.456)
ProgressTick(g, s) ==
    /\ progressIntervalId[g] = "armed"
    /\ IF CallbackLive(g)
       THEN /\ torrentInfo' = [infoHash |-> g, snap |-> s]
            /\ timeRemaining' = TimeRemainingOf(s)
       ELSE UNCHANGED <<torrentInfo, timeRemaining>>
    /\ UNCHANGED <<torrentStatus, torrentError, selectedFile, swarmRefs, fetches,
                   geminiInfo, isGeminiLoading, otherThanSwarm>>
    /\ IdEffects

\* 'done' (l.459-464): the torrent's progress is 1
TorrentDone(g) ==
    /\ listeners[g] = "ready"
    /\ IF CallbackLive(g)
       THEN /\ torrentInfo' = [infoHash |-> g, snap |-> "complete"]
            /\ timeRemaining' = TimeRemainingOf("complete")
            /\ progressIntervalId' = [progressIntervalId EXCEPT ![g] = ClearTimer(@)]
       ELSE UNCHANGED <<torrentInfo, timeRemaining, progressIntervalId>>
    /\ UNCHANGED <<torrentStatus, torrentError, selectedFile, client, destroyCb,
                   torrentClientRef, torrentRef, addCb, torReady, listeners,
                   metadataTimeoutId, fetches, geminiInfo, isGeminiLoading, otherThanSwarm>>
    /\ IdEffects

\* 'error' (l.470-481)
TorrentError(g, k) ==
    /\ listeners[g] # "none"
    /\ IF CallbackLive(g)
       THEN /\ torrentError' = UserMessage(k)
            /\ progressIntervalId' = [progressIntervalId EXCEPT ![g] = ClearTimer(@)]
            /\ metadataTimeoutId' = [metadataTimeoutId EXCEPT ![g] = ClearTimer(@)]
       ELSE UNCHANGED <<torrentError, progressIntervalId, metadataTimeoutId>>
    /\ UNCHANGED <<torrentInfo, torrentStatus, selectedFile, timeRemaining, client,
                   destroyCb, torrentClientRef, torrentRef, addCb, torReady, listeners,
                   fetches, geminiInfo, isGeminiLoading, otherThanSwarm>>
    /\ IdEffects

\* The 30 s timer set in the add callback fires (l.417-421)
MetadataTimeout(g) ==
    /\ metadataTimeoutId[g] = "armed"
    /\ metadataTimeoutId' = [metadataTimeoutId EXCEPT ![g] = "fired"]
    /\ torrentError' = IF CallbackLive(g) /\ ~torReady[g] THEN "stalled" ELSE torrentError
    /\ UNCHANGED <<torrentInfo, torrentStatus, selectedFile, timeRemaining, client,
                   destroyCb, torrentClientRef, torrentRef, addCb, torReady, listeners,
                   progressIntervalId, fetches, geminiInfo, isGeminiLoading, otherThanSwarm>>
    /\ IdEffects

\* The completion callback of destroy() (l.343)
DestroyCallback(g) ==
    /\ destroyCb[g] > 0
    /\ destroyCb' = [destroyCb EXCEPT ![g] = @ - 1]
    /\ client' = [client EXCEPT ![g] = "destroyed"]
    /\ torrentClientRef' = 0
    /\ UNCHANGED <<torrentRef, addCb, torReady, listeners, metadataTimeoutId,
                   progressIntervalId, playerState, fetches, geminiInfo, isGeminiLoading,
                   otherThanSwarm>>
    /\ IdEffects

\* The file list of the torrent screen (l.935) and 'Volver a la lista' (l.1004)
SelectFile(f) ==
    /\ ~ended /\ media.type = "torrent"
    /\ torrentInfo # NoInfo /\ selectedFile = NoFile
    /\ selectedFile' = [sess |-> torrentInfo.infoHash, name |-> f]
    /\ fetches' = fetches \cup SelectLookup(selectedFile', geminiInfo)
    /\ UNCHANGED <<torrentInfo, torrentStatus, torrentError, timeRemaining, swarmRefs,
                   geminiInfo, isGeminiLoading, otherThanSwarm>>
    /\ IdEffects
DeselectFile ==
    /\ ~ended /\ media.type = "torrent" /\ selectedFile # NoFile
    /\ selectedFile' = NoFile
    /\ UNCHANGED <<torrentInfo, torrentStatus, torrentError, timeRemaining, swarmRefs,
                   fetches, geminiInfo, isGeminiLoading, otherThanSwarm>>
    /\ IdEffects

\* the descriptors the swarm specification activates
SwarmInputs == TorrentInputs \cup {m \in IptvInputs : ~m.epgUrl}
NextSwarm ==
    \/ \E m \in SwarmInputs, lib \in BOOLEAN : Activate(m, lib, TRUE)
    \/ Unmount
    \/ \E g \in Sessions, s \in Snaps : AddCallback(g, TRUE, s)
    \/ \E g \in Sessions, s \in Snaps : TorrentReady(g, s)
    \/ \E g \in Sessions, s \in Snaps : TorrentTransfer(g, s)
    \/ \E g \in Sessions, s \in Snaps : ProgressTick(g, s)
    \/ \E g \in Sessions : TorrentDone(g)
    \/ \E g \in Sessions, k \in ErrKinds : TorrentError(g, k)
    \/ \E g \in Sessions : MetadataTimeout(g)
    \/ \E f \in Files : SelectFile(f)
    \/ DeselectFile
\* The engine callbacks and the player state they write.  DestroyCallback is left to
\* SpecEngine: it writes client, destroyCb and torrentClientRef only, which no action
\* of NextSwarm reads except to update these three.
SpecSwarm == Init /\ [][NextSwarm]_vars

\* The wait for 'ready'.  The 30 s timer is a browser timer and fires once set; when
\* the engine delivers the add callback and when the torrent becomes ready is up to
\* the swarm.
NextStall ==
    \/ \E m \in TorrentInputs : Activate(m, TRUE, TRUE)
    \/ Unmount
    \/ \E g \in Sessions, s \in Snaps : AddCallback(g, TRUE, s)
    \/ \E g \in Sessions, s \in Snaps : TorrentReady(g, s)
    \/ \E g \in Sessions : MetadataTimeout(g)
SpecStall ==
    /\ Init /\ [][NextStall]_vars
    /\ \A g \in Sessions : WF_vars(MetadataTimeout(g))

\* The engine instances over the sessions
NextEngine ==
    \/ \E m \in SwarmInputs, lib \in BOOLEAN : Activate(m, lib, TRUE)
    \/ Unmount
    \/ \E g \in Sessions, hit \in BOOLEAN, s \in Snaps : AddCallback(g, hit, s)
    \/ \E g \in Sessions, s \in Snaps : TorrentReady(g, s)
    \/ \E g \in Sessions : DestroyCallback(g)
SpecEngine == Init /\ [][NextEngine]_vars


\* ------------------------------------------------------------------ media element, subtitles

\* l.987: the video and the controls are shown
ShowPlayer ==
    \/ media.type \in {"iptv", "local"}
    \/ media.type = "torrent" /\ selectedFile # NoFile

RECURSIVE LastWithLabel(_, _, _)
\* the last element of c[1..i] carrying label l
LastWithLabel(c, l, i) ==
    IF c[i].label = l THEN c[i] ELSE LastWithLabel(c, l, i - 1)
RECURSIVE MapValues(_, _)
\* Array.from(new Map(c.map(item => [item.label, item])).values()), for c[i..]:
\* a key keeps the place of its first entry and the value of its last one
MapValues(c, i) ==
    IF i > Len(c) THEN <<>>
    ELSE IF \E j \in 1..(i - 1) : c[j].label = c[i].label
         THEN MapValues(c, i + 1)
         ELSE <<LastWithLabel(c, c[i].label, Len(c))>> \o MapValues(c, i + 1)

\* video.textTracks: the <track> elements rendered from subtitleTracks (l.1021),
\* then the in-band tracks of the media, given by their labels
TextTracks(inband) == TextTracksOf(subtitleTracks, inband)
\* l.676-682: src `embedded-${i}-...` is modelled as -(i+1)
EmbeddedTracks(inband) ==
    [i \in 1..Len(TextTracks(inband)) |-> [src |-> 0 - i, label |-> TextTracks(inband)[i]]]

InbandInputs == {<<>>, <<1>>}

\* 'loadedmetadata' of the media element (l.667-690)
LoadedMetadata(inband) ==
    /\ ~ended /\ gen > 0 /\ videoContent # NoId
    /\ metaFired' = [metaFired EXCEPT ![gen] = TRUE]
    /\ videoDuration' = DurationOf(videoContent)
    /\ duration' = videoDuration'
    /\ UNCHANGED <<mediaId, resumeTime, videoContent, positionStore>>
    /\ availableSubtitleTracks' = MapValues(subtitleTracks \o EmbeddedTracks(inband), 1)
    \* the tracks of the media resource are in video.textTracks; the new list runs
    \* the visibility effect
    /\ inbandTracks' = inband
    /\ trackCues' = ExternalPart(trackCues)
                     \o (IF inband = inbandTracks THEN InbandPart(trackCues)
                         ELSE [i \in 1..Len(inband) |-> {}])
    /\ trackMode' = VisibilityEffect(activeSubtitleTrack, TextTracks(inband))
    /\ UNCHANGED <<cueState, introState, seekState, liveState>>
    /\ UNCHANGED <<sessionState, swarmRefs, playerState, fetches, lookupState, lookupFlags,
                   subtitleTracks, activeSubtitleTrack, blobState, queueState>>

\* reader.onload of handleSubtitleFileChange (l.831-839); l: the file name less its extension
LoadSubtitle(l) ==
    /\ ~ended /\ gen > 0 /\ ShowPlayer
    /\ Len(blobs) < MaxUrls
    /\ blobs' = Append(blobs, [sess |-> gen, kind |-> "subtitle"])
    /\ subtitleTracks' = Append(subtitleTracks, [src |-> Len(blobs) + 1, label |-> l])
    /\ activeSubtitleTrack' = [src |-> Len(blobs) + 1, label |-> l]
    /\ UNCHANGED <<sessionState, swarmRefs, playerState, fetches, lookupState, lookupFlags,
                   availableSubtitleTracks, tracksToClean, localFileUrl, localUrlSeen,
                   revoked, mediaElement, queueState, positionState>>
    \* the commit adds the <track> element; the applyOffset effect runs before the
    \* visibility effect and finds the new track disabled
    /\ LET labels == TextTracksOf(subtitleTracks', inbandTracks)
           modes == ExternalPart(trackMode) \o <<"disabled">> \o InbandPart(trackMode)
           tcues == ExternalPart(trackCues) \o <<{}>> \o InbandPart(trackCues)
           applied == ApplyOffsetEffect(activeSubtitleTrack', subtitleOffset, labels,
                                        modes, tcues, cues, originalCueTimes)
       IN /\ trackCues' = tcues
          /\ cues' = applied.cues
          /\ originalCueTimes' = applied.originalCueTimes
          /\ trackMode' = VisibilityEffect(activeSubtitleTrack', labels)
    /\ UNCHANGED <<inbandTracks, subtitleOffset, introState, seekState, liveState>>

otherThanTracks == <<sessionState, swarmRefs, playerState, fetches, lookupState,
                     lookupFlags, blobState, mediaElement, queueState, positionState,
                     introState, seekState, liveState>>

\* handleSelectSubtitleTrack (l.844) from the subtitle menu: an entry of the list or
\* null; a new value runs the applyOffset effect, then the visibility effect
SelectSubtitleTrack(track) ==
    /\ ~ended /\ gen > 0 /\ ShowPlayer
    /\ track = NoTrack \/ \E i \in 1..Len(availableSubtitleTracks) :
                             availableSubtitleTracks[i] = track
    /\ track # activeSubtitleTrack
    /\ activeSubtitleTrack' = track
    /\ LET labels == TextTracks(inbandTracks)
           applied == ApplyOffsetEffect(track, subtitleOffset, labels, trackMode,
                                        trackCues, cues, originalCueTimes)
       IN /\ cues' = applied.cues
          /\ originalCueTimes' = applied.originalCueTimes
          /\ trackMode' = VisibilityEffect(track, labels)
    /\ UNCHANGED <<subtitleTracks, availableSubtitleTracks, inbandTracks, trackCues,
                   subtitleOffset, otherThanTracks>>

\* an offset button of the subtitle settings (Controls.tsx l.167-169) and
\* handleSubtitleSettingsChange (l.755-760); the applyOffset effect follows
ChangeOffset(step) ==
    /\ ~ended /\ gen > 0 /\ ShowPlayer
    /\ subtitleOffset + step \in (0 - MaxOffset)..MaxOffset
    /\ subtitleOffset' = subtitleOffset + step
    /\ LET applied == ApplyOffsetEffect(activeSubtitleTrack, subtitleOffset',
                                        TextTracks(inbandTracks), trackMode,
                                        trackCues, cues, originalCueTimes)
       IN /\ cues' = applied.cues
          /\ originalCueTimes' = applied.originalCueTimes
    /\ UNCHANGED <<subtitleState, textTrackState, otherThanTracks>>

\* the browser adds a cue to text track k as it reads the subtitle file or the media;
\* a disabled track is not read
CueArrives(k, start) ==
    /\ ~ended /\ gen > 0
    /\ k \in 1..Len(trackMode) /\ trackMode[k] # "disabled"
    /\ Len(cues) < MaxCues
    /\ cues' = Append(cues, [orig |-> start, startTime |-> start,
                             endTime |-> start + CueLength])
    /\ originalCueTimes' = Append(originalCueTimes, NoTimes)
    /\ trackCues' = [trackCues EXCEPT ![k] = @ \cup {Len(cues) + 1}]
    /\ UNCHANGED <<subtitleState, inbandTracks, trackMode, subtitleOffset, otherThanTracks>>

\* the descriptors the cue specification activates
CueInputs == {m \in IptvInputs : ~m.epgUrl}
NextCues ==
    \/ \E m \in CueInputs : Activate(m, TRUE, TRUE)
    \/ \E l \in Labels : Len(subtitleTracks) < MaxTracks /\ LoadSubtitle(l)
    \/ \E inband \in InbandInputs : LoadedMetadata(inband)
    \/ \E i \in 0..Cardinality(Labels) : SelectSubtitleTrack(
                IF i \in 1..Len(availableSubtitleTracks)
                THEN availableSubtitleTracks[i] ELSE NoTrack)
    \/ \E step \in OffsetSteps : ChangeOffset(step)
    \/ \E k \in 1..(MaxUrls + 1), start \in CueStarts : CueArrives(k, start)
SpecCues == Init /\ [][NextCues]_vars

NextSubtitles ==
    \/ \E m \in MediaInputs, lib \in BOOLEAN : Activate(m, lib, TRUE)
    \/ Unmount
    \/ \E l \in Labels : LoadSubtitle(l)
    \/ \E inband \in InbandInputs : LoadedMetadata(inband)
SpecSubtitles == Init /\ [][NextSubtitles]_vars

\* ------------------------------------------------------------------ asynchronous lookups

otherThanLookup == <<sessionState, swarmRefs, playerState, subtitleState, blobState,
                     mediaElement, queueState, positionState, textTrackState, cueState,
                     showSkipIntro, chapterSource, seekState, liveState>>

\* the fetch of loadEpg settles (l.261-272); ok: the response parsed
EpgResult(g, ok) ==
    /\ [op |-> "epg", sess |-> g] \in fetches
    /\ fetches' = fetches \ {[op |-> "epg", sess |-> g]}
    /\ IF ended
       THEN UNCHANGED <<epgData, isEpgLoading>>
       ELSE /\ epgData' = IF ok THEN g ELSE 0
            /\ isEpgLoading' = FALSE
    /\ UNCHANGED <<geminiInfo, chapters, chapterItems, activeFileInfo, isGeminiLoading,
                   isAnalyzingChapters, isFetchingFileInfo, otherThanLookup>>

\* getContentInfo of fetchGeminiData settles (l.374-381); found: it returned an info
GeminiResult(g, found) ==
    /\ [op |-> "gemini", sess |-> g] \in fetches
    /\ fetches' = fetches \ {[op |-> "gemini", sess |-> g]}
    /\ IF isMounted[g]
       THEN /\ geminiInfo' = IF found THEN g ELSE geminiInfo
            /\ isGeminiLoading' = FALSE
       ELSE UNCHANGED <<geminiInfo, isGeminiLoading>>
    /\ UNCHANGED <<epgData, chapters, chapterItems, activeFileInfo, isEpgLoading,
                   isAnalyzingChapters, isFetchingFileInfo, otherThanLookup>>

\* getContentInfo(f.name).then(setGeminiInfo) of the selected-file effect settles (l.524)
SelectLookupResult(g, found) ==
    /\ [op |-> "select", sess |-> g] \in fetches
    /\ IF ended
       THEN /\ fetches' = fetches \ {[op |-> "select", sess |-> g]}
            /\ UNCHANGED geminiInfo
       ELSE /\ geminiInfo' = IF found THEN g ELSE 0
            /\ fetches' = (fetches \ {[op |-> "select", sess |-> g]})
                 \cup (IF geminiInfo' # geminiInfo
                       THEN SelectLookup(selectedFile, geminiInfo') ELSE {})
    /\ UNCHANGED <<epgData, chapters, chapterItems, activeFileInfo, lookupFlags, otherThanLookup>>

\* handleAnalyzeChapters (l.293-313) up to its await; hit: the chapters are cached
AnalyzeChapters(hit) ==
    /\ ~ended /\ gen > 0 /\ ShowPlayer
    /\ IF (geminiInfo = 0 /\ torrentInfo = NoInfo /\ media.type # "local") \/ duration = 0
       THEN UNCHANGED <<chapters, chapterItems, isAnalyzingChapters, fetches>>
       ELSE IF hit
            THEN /\ chapters' = gen /\ chapterItems' = chapterSource
                 /\ UNCHANGED <<isAnalyzingChapters, fetches>>
            ELSE /\ isAnalyzingChapters' = TRUE
                 /\ fetches' = fetches \cup {[op |-> "chapters", sess |-> gen]}
                 /\ UNCHANGED <<chapters, chapterItems>>
    /\ UNCHANGED <<epgData, geminiInfo, activeFileInfo, isEpgLoading, isGeminiLoading,
                   isFetchingFileInfo, otherThanLookup>>

\* getVideoChapters settles (l.305-312)
ChaptersResult(g, found) ==
    /\ [op |-> "chapters", sess |-> g] \in fetches
    /\ fetches' = fetches \ {[op |-> "chapters", sess |-> g]}
    /\ IF ended
       THEN UNCHANGED <<chapters, chapterItems, isAnalyzingChapters>>
       ELSE /\ chapters' = IF found THEN g ELSE chapters
            /\ chapterItems' = IF found THEN chapterSource ELSE chapterItems
            /\ isAnalyzingChapters' = FALSE
    /\ UNCHANGED <<epgData, geminiInfo, activeFileInfo, isEpgLoading, isGeminiLoading,
                   isFetchingFileInfo, otherThanLookup>>

\* handleFetchFileInfo (l.275-291) up to its await, from the file list (l.935)
FetchFileInfo(f, hit) ==
    /\ ~ended /\ media.type = "torrent"
    /\ torrentInfo # NoInfo /\ selectedFile = NoFile
    /\ isFetchingFileInfo # f
    /\ IF hit
       THEN /\ activeFileInfo' = gen
            /\ isFetchingFileInfo' = 0
            /\ UNCHANGED fetches
       ELSE /\ isFetchingFileInfo' = f
            /\ fetches' = fetches \cup {[op |-> "fileinfo", sess |-> gen]}
            /\ UNCHANGED activeFileInfo
    /\ UNCHANGED <<epgData, geminiInfo, chapters, chapterItems, isEpgLoading, isGeminiLoading,
                   isAnalyzingChapters, otherThanLookup>>

\* getContentInfo of handleFetchFileInfo settles (l.283-290)
FileInfoResult(g, found) ==
    /\ [op |-> "fileinfo", sess |-> g] \in fetches
    /\ fetches' = fetches \ {[op |-> "fileinfo", sess |-> g]}
    /\ IF ended
       THEN UNCHANGED <<activeFileInfo, isFetchingFileInfo>>
       ELSE /\ activeFileInfo' = IF found THEN g ELSE activeFileInfo
            /\ isFetchingFileInfo' = 0
    /\ UNCHANGED <<epgData, geminiInfo, chapters, chapterItems, isEpgLoading, isGeminiLoading,
                   isAnalyzingChapters, otherThanLookup>>

\* the descriptors the lookup specification activates
LookupInputs ==
    IptvInputs \cup LocalInputs
    \cup {m \in TorrentInputs : m.mode = "stream" /\ m.initialFile = 0}
NextLookup ==
    \/ \E m \in LookupInputs, hit \in BOOLEAN : Activate(m, TRUE, hit)
    \/ Unmount
    \/ \E g \in Sessions, hit \in BOOLEAN : AddCallback(g, hit, "moving")
    \/ \E g \in Sessions : TorrentReady(g, "moving")
    \/ \E f \in Files : SelectFile(f)
    \/ LoadedMetadata(<<>>)
    \/ \E g \in Sessions, ok \in BOOLEAN : EpgResult(g, ok)
    \/ \E g \in Sessions, found \in BOOLEAN : GeminiResult(g, found)
    \/ \E g \in Sessions, found \in BOOLEAN : SelectLookupResult(g, found)
    \/ \E hit \in BOOLEAN : AnalyzeChapters(hit)
    \/ \E g \in Sessions, found \in BOOLEAN : ChaptersResult(g, found)
    \/ \E f \in Files, hit \in BOOLEAN : FetchFileInfo(f, hit)
    \/ \E g \in Sessions, found \in BOOLEAN : FileInfoResult(g, found)
SpecLookup == Init /\ [][NextLookup]_vars

\* ------------------------------------------------------------------ download queue

otherThanQueue == <<sessionState, swarmRefs, playerState, fetches, lookupState, lookupFlags,
                    subtitleState, blobState, mediaElement, positionState,
                    textTrackState, cueState, introState, seekState, liveState>>

\* A render after setDownloadQueue, with the queue effect it runs (l.765-781)
Render ==
    /\ ~ended /\ gen > 0 /\ queueDirty
    /\ queueSeen' = downloadQueue
    /\ IF QueueEffectFires(downloadQueue)
       THEN /\ downloadQueue' = SetStatus(downloadQueue, QueueEffectFile(downloadQueue), "preparing")
            /\ blobReqs' = [blobReqs EXCEPT ![QueueEffectFile(downloadQueue)] = @ + 1]
            /\ queueDirty' = TRUE
       ELSE /\ queueDirty' = FALSE
            /\ UNCHANGED <<downloadQueue, blobReqs>>
    /\ UNCHANGED <<enqueues, otherThanQueue>>

\* handleAddToDownloadQueue (l.783-787) with a file of the session's torrent
Enqueue(f) ==
    /\ ~ended /\ media.type = "torrent" /\ torrentInfo # NoInfo
    /\ enqueues < MaxEnqueues
    /\ IF ~HasName(queueSeen, f)
       THEN /\ downloadQueue' = Append(downloadQueue, NewItem(f))
            /\ queueDirty' = TRUE
            /\ enqueues' = enqueues + 1
       ELSE UNCHANGED <<downloadQueue, queueDirty, enqueues>>
    /\ UNCHANGED <<queueSeen, blobReqs, otherThanQueue>>

\* 'Limpiar cola' (l.968), rendered while the queue of the render is not empty
ClearQueue ==
    /\ ~ended /\ Len(queueSeen) > 0
    /\ downloadQueue' = <<>>
    /\ queueDirty' = TRUE
    /\ UNCHANGED <<queueSeen, blobReqs, enqueues, otherThanQueue>>

BlobResults == {"url", "error", "error-no-message", "no-url"}
\* err?.message || 'Failed' (l.773)
ErrorMessage(res) == IF res = "error" THEN "message" ELSE "Failed"
\* the three updates of the success branch (l.776-778)
Materialized(q, name) ==
    SetStatus(MarkSaved(SetUrl(SetStatus(q, name, "downloading"), name), name), name, "done")

\* the callback of getBlobURL for the file called name (l.771-779)
BlobCallback(name, res) ==
    /\ blobReqs[name] > 0
    /\ blobReqs' = [blobReqs EXCEPT ![name] = @ - 1]
    /\ IF ended
       THEN UNCHANGED <<downloadQueue, queueDirty>>
       ELSE /\ downloadQueue' = IF res = "url"
                                THEN Materialized(downloadQueue, name)
                                ELSE SetError(downloadQueue, name, ErrorMessage(res))
            /\ queueDirty' = TRUE
    /\ UNCHANGED <<queueSeen, enqueues, otherThanQueue>>

\* the descriptors the queue specification activates
QueueInputs ==
    {m \in TorrentInputs : m.mode = "download"} \cup {m \in IptvInputs : ~m.epgUrl}
NextQueue ==
    \/ \E m \in QueueInputs : Activate(m, TRUE, TRUE)
    \/ Unmount
    \/ \E g \in Sessions : AddCallback(g, TRUE, "moving")
    \/ \E g \in Sessions : TorrentReady(g, "moving")
    \/ Render
    \/ \E f \in Files : Enqueue(f)
    \/ ClearQueue
    \/ \E f \in Files, res \in BlobResults : BlobCallback(f, res)
SpecQueue == Init /\ [][NextQueue]_vars

\* ------------------------------------------------------------------ playback position

otherThanPosition == <<sessionState, swarmRefs, playerState, fetches, lookupState,
                       lookupFlags, subtitleState, blobState, mediaElement, queueState,
                       textTrackState, cueState, chapterItems, chapterSource, liveState>>

\* a timer that was set and has neither run nor been cleared
Pending(t) == t.state \in {"armed", "due"}
\* a timer fires without the test of the ref
TimerSlotAlways(ref) == TRUE
\* `if (!timeUpdateTimeoutRef.current)` (l.651)
TimerSlotFree(ref) == ref = 0

\* onTimeUpdate (l.637-663) with video.currentTime = t
TimeUpdate(t) ==
    /\ ~ended /\ videoContent # NoId
    /\ t <= videoDuration
    /\ IF TimerSlotFree(timeUpdateTimeoutRef)
       THEN /\ Len(posTimers) < MaxTimers
            /\ posTimers' = Append(posTimers, [id |-> mediaId, time |-> t,
                                               state |-> "armed", armedAt |-> writes])
            /\ timeUpdateTimeoutRef' = Len(posTimers) + 1
       ELSE UNCHANGED <<posTimers, timeUpdateTimeoutRef>>
    /\ showSkipIntro' = SkipIntroAfterUpdate(chapters, chapterItems, t, showSkipIntro)
    /\ UNCHANGED <<mediaId, resumeTime, videoContent, videoDuration, stored, writes,
                   seekState, otherThanPosition>>

\* the 15 s of timer i pass (l.661)
DelayElapses(i) ==
    /\ i \in 1..Len(posTimers) /\ posTimers[i].state = "armed"
    /\ posTimers' = [posTimers EXCEPT ![i].state = "due"]
    /\ UNCHANGED <<mediaId, resumeTime, videoContent, videoDuration, stored,
                   timeUpdateTimeoutRef, writes, showSkipIntro, seekState, otherThanPosition>>

\* time / video.duration > 0.95 (l.654)
Finished(time, dur) == time * 100 > FinishedPercent * dur

\* the callback of timer i (l.652-661)
PositionTimer(i) ==
    /\ i \in 1..Len(posTimers) /\ posTimers[i].state = "due"
    /\ posTimers' = [posTimers EXCEPT ![i].state = "fired"]
    /\ IF posTimers[i].id # NoId /\ posTimers[i].time > 0 /\ videoDuration > 0
       THEN /\ stored' = IF Finished(posTimers[i].time, videoDuration)
                         THEN ClearPlaybackPosition(stored, posTimers[i].id)
                         ELSE SetPlaybackPosition(stored, posTimers[i].id, posTimers[i].time)
            /\ writes' = writes + 1
       ELSE UNCHANGED <<stored, writes>>
    /\ timeUpdateTimeoutRef' = 0
    /\ UNCHANGED <<mediaId, resumeTime, videoContent, videoDuration, showSkipIntro,
                   seekState, otherThanPosition>>

\* handleResumePlayback (l.508-516), from the prompt of l.971-983
ResumePlayback(resume) ==
    /\ ~ended /\ resumeTime # 0 /\ ShowPlayer
    /\ seekTime' = IF resume /\ resumeTime # 0 THEN resumeTime ELSE seekTime
    /\ resumeTime' = 0
    /\ playRequested' = TRUE
    /\ videoEl' = Play(videoEl)
    /\ UNCHANGED <<mediaId, videoContent, videoDuration, positionStore, showSkipIntro,
                   otherThanPosition>>

\* App renders a new UnifiedPlayer after onBack (App.tsx l.131-146): component state and
\* refs start again, localStorage and the closures of the old instance remain.  What is
\* still owed to the old instance (lookups, getBlobURL and destroy callbacks) can only
\* set its state and is dropped.
Remount ==
    /\ ended /\ gen < MaxSessions
    /\ ended' = FALSE /\ media' = NoMedia
    /\ torrentClientRef' = 0 /\ torrentRef' = 0
    /\ destroyCb' = [g \in Sessions |-> 0]
    /\ torrentInfo' = NoInfo /\ torrentStatus' = "Initializing..."
    /\ torrentError' = "null" /\ selectedFile' = NoFile
    /\ timeRemaining' = "Calculating..."
    /\ fetches' = {}
    /\ epgData' = 0 /\ geminiInfo' = 0 /\ chapters' = 0 /\ activeFileInfo' = 0
    /\ isEpgLoading' = FALSE /\ isGeminiLoading' = FALSE
    /\ isAnalyzingChapters' = FALSE /\ isFetchingFileInfo' = 0
    /\ duration' = 0
    /\ subtitleTracks' = <<>> /\ activeSubtitleTrack' = NoTrack
    /\ availableSubtitleTracks' = <<>>
    /\ localFileUrl' = 0
    /\ downloadQueue' = <<>> /\ queueSeen' = <<>> /\ queueDirty' = FALSE
    /\ blobReqs' = [f \in Files |-> 0]
    /\ mediaId' = NoId /\ resumeTime' = 0
    /\ timeUpdateTimeoutRef' = 0
    /\ videoContent' = NoId /\ videoDuration' = 0
    /\ inbandTracks' = <<>> /\ trackMode' = <<>> /\ trackCues' = <<>>
    /\ cues' = <<>> /\ originalCueTimes' = <<>>
    /\ chapterItems' = <<>> /\ showSkipIntro' = FALSE
    /\ seekTime' = NoSeek /\ playRequested' = FALSE
    /\ videoEl' = NewVideo
    /\ playing' = FALSE /\ volume' = FullVolume /\ muted' = FALSE /\ playbackRate' = 1
    /\ castState' = "NO_DEVICES_AVAILABLE" /\ session' = FALSE /\ castCalls' = {}
    /\ isZipping' = FALSE /\ zipJobs' = NoJobs /\ UNCHANGED zipsStarted
    /\ UNCHANGED <<chapterSource, browserState, hlsAttached>>
    /\ currentChannel' = 0 /\ hlsVar' = 0
    \* useState(getSubtitleSettings) (l.189): nothing writes the settings item (the
    \* setSubtitleSettings of l.758 is the state setter), so the default is read
    /\ subtitleOffset' = 0
    /\ UNCHANGED <<gen, isMounted, hasCleanup, client, addCb, torReady, listeners,
                   metadataTimeoutId, progressIntervalId, tracksToClean, localUrlSeen,
                   blobs, revoked, metaFired, enqueues, stored, posTimers, writes>>

\* the descriptors the position specification activates
PositionInputs ==
    LocalInputs \cup {m \in IptvInputs : ~m.epgUrl}
    \cup {m \in TorrentInputs : m.mode = "stream" /\ m.initialFile = 0}
NextPosition ==
    \/ \E m \in PositionInputs : Activate(m, TRUE, TRUE)
    \/ Unmount
    \/ Remount
    \/ \E g \in Sessions : AddCallback(g, TRUE, "moving")
    \/ \E g \in Sessions : TorrentReady(g, "moving")
    \/ \E f \in Files : SelectFile(f)
    \/ DeselectFile
    \/ LoadedMetadata(<<>>)
    \/ \E t \in TimeInputs : TimeUpdate(t)
    \/ \E i \in 1..MaxTimers : DelayElapses(i)
    \/ \E i \in 1..MaxTimers : PositionTimer(i)
    \/ \E resume \in BOOLEAN : ResumePlayback(resume)
SpecPosition == Init /\ [][NextPosition]_vars

\* the position timer over the sessions
TimerInputs ==
    LocalInputs \cup {m \in IptvInputs : ~m.epgUrl}
    \cup {m \in TorrentInputs : m.mode = "download"}
NextTimer ==
    \/ \E m \in TimerInputs, lib \in BOOLEAN : Activate(m, lib, TRUE)
    \/ Unmount
    \/ Remount
    \/ LoadedMetadata(<<>>)
    \/ \E t \in TimeInputs : TimeUpdate(t)
    \/ \E i \in 1..MaxTimers : DelayElapses(i)
    \/ \E i \in 1..MaxTimers : PositionTimer(i)
SpecTimer == Init /\ [][NextTimer]_vars

\* ------------------------------------------------------------------ the intro window

\* handleSkipIntro (l.944-952), from the button of l.954-964
SkipIntro ==
    /\ ~ended /\ showSkipIntro
    /\ IF chapters # 0 /\ FindIntroEnd(chapterItems) # 0
       THEN /\ seekTime' = chapterItems[FindIntroEnd(chapterItems)].timestamp
            /\ showSkipIntro' = FALSE
       ELSE UNCHANGED <<seekTime, showSkipIntro>>
    /\ UNCHANGED <<playRequested, videoEl, positionState, otherThanPosition>>

NextIntro ==
    \/ \E m \in LocalInputs : Activate(m, TRUE, TRUE)
    \/ LoadedMetadata(<<>>)
    \/ \E hit \in BOOLEAN : AnalyzeChapters(hit)
    \/ \E g \in Sessions, found \in BOOLEAN : ChaptersResult(g, found)
    \/ \E t \in TimeInputs : TimeUpdate(t)
    \/ \E i \in 1..MaxTimers : DelayElapses(i)
    \/ \E i \in 1..MaxTimers : PositionTimer(i)
    \/ SkipIntro
\* the collaborator may hold any list for the media
InitIntro ==
    /\ InitComponent /\ stored = AbsentItem /\ chapterSource \in ChapterLists
    /\ hlsSupported = TRUE /\ InitStorage
SpecIntro == InitIntro /\ [][NextIntro]_vars

\* ------------------------------------------------------------------ live channels

\* Hls.ErrorTypes and Hls.ErrorDetails as the ERROR handler tells them apart (l.56-57, l.68-80)
ErrorTypes == {"networkError", "mediaError", "otherError"}
ErrorDetails == {"manifestLoadError", "otherDetail"}

\* onSelectChannel={setCurrentChannel} of the sidebar and the EPG grid (l.1001, l.1015)
\* with a channel other than the current one: the Player effect (deps [channel,
\* videoRef]), the mediaId effect (l.489-495) and the saved-position effect (l.498-506)
\* run; the setup effect (deps [media, loadEpg]) does not.
SelectChannel(c) ==
    /\ ~ended /\ media.type = "iptv" /\ c # currentChannel
    /\ Len(hlsAttached) < MaxLoaders
    /\ currentChannel' = c
    /\ LET player == PlayerEffect(hlsAttached, hlsVar, c)
       IN hlsAttached' = player.loaders /\ hlsVar' = player.var
    /\ mediaId' = MediaIdEffect(media, c, torrentInfo, selectedFile, mediaId)
    /\ resumeTime' = SavedPositionEffect(mediaId, mediaId', resumeTime)
    /\ playRequested' = PlayAfterSavedPosition(mediaId, mediaId', playRequested)
    /\ videoEl' = VideoAfterEffects(videoEl, TRUE, CastsMedia(castState, session, media, c),
                                    PlayAfterSavedPosition(mediaId, mediaId', FALSE))
    \* the media element gets the new source and loses the tracks of the old one
    /\ videoContent' = ChannelId(c) /\ videoDuration' = 0
    /\ inbandTracks' = <<>>
    /\ trackMode' = ExternalPart(trackMode)
    /\ trackCues' = ExternalPart(trackCues)
    /\ UNCHANGED <<sessionState, swarmRefs, playerState, fetches, lookupState, lookupFlags,
                   subtitleState, blobState, mediaElement, queueState, positionStore,
                   cueState, introState, seekTime, envState>>

\* The ERROR handler (l.49-82) of instance i for an error of type ty and details d.
\* isProxyAttempt, originalUrl and isMounted are those of the attemptLoad call and of
\* the effect run that made the instance; `hls` is the variable of that run.
HlsError(i, ty, d, fatal) ==
    /\ ~ended /\ i \in 1..Len(hlsAttached)
    /\ IF ty = "networkError" /\ d = "manifestLoadError" /\ ~hlsAttached[i].proxy
       THEN \* l.56-65: attemptLoad(proxiedUrl, true)
            /\ Len(hlsAttached) < MaxLoaders
            /\ IF hlsAttached[i].mounted
               THEN LET load == AttemptLoad(hlsAttached, hlsVar, hlsAttached[i].channel, TRUE)
                    IN hlsAttached' = load.loaders /\ hlsVar' = load.var
               ELSE UNCHANGED <<hlsAttached, hlsVar>>
       ELSE \* l.67-81: hls?.startLoad() or hls?.recoverMediaError()
            IF fatal /\ ty \in {"networkError", "mediaError"}
               /\ hlsAttached[i].mounted /\ hlsVar # 0
            THEN /\ hlsAttached[hlsVar].recoveries < MaxRecoveries
                 /\ hlsAttached' = [hlsAttached EXCEPT ![hlsVar].recoveries = @ + 1]
                 /\ UNCHANGED hlsVar
            ELSE UNCHANGED <<hlsAttached, hlsVar>>
    /\ UNCHANGED <<currentChannel, envState, sessionState, swarmRefs, playerState,
                   fetches, lookupState, lookupFlags, subtitleState, blobState,
                   mediaElement, queueState, positionState, textTrackState, cueState,
                   introState, seekState>>

\* the profile may be of a browser without Hls support
InitLive ==
    /\ InitComponent /\ stored = AbsentItem /\ chapterSource = OrderedChapters
    /\ hlsSupported \in BOOLEAN /\ InitStorage
\* the adapter over live and local sessions
NextLive ==
    \/ \E m \in {x \in IptvInputs : ~x.epgUrl} \cup LocalInputs : Activate(m, TRUE, TRUE)
    \/ Unmount
    \/ Remount
    \/ LoadedMetadata(<<>>)
    \/ \E c \in Channels : SelectChannel(c)
    \/ \E i \in 1..MaxLoaders, ty \in ErrorTypes, d \in ErrorDetails, fatal \in BOOLEAN :
          HlsError(i, ty, d, fatal)
SpecLive == InitLive /\ [][NextLive]_vars
\* channel switches in live sessions that hold EPG data and subtitles
NextChannels ==
    \/ \E m \in IptvInputs, hit \in BOOLEAN : Activate(m, TRUE, hit)
    \/ \E c \in Channels : SelectChannel(c)
    \/ LoadedMetadata(<<>>)
    \/ \E l \in Labels : subtitleTracks = <<>> /\ LoadSubtitle(l)
    \/ \E g \in Sessions, ok \in BOOLEAN : EpgResult(g, ok)
SpecChannels == InitLive /\ [][NextChannels]_vars
\* live sessions started with a remembered channel (App.tsx l.96-105): the playlist is
\* loaded again from its URL and may no longer hold the channel
InitRemembered ==
    /\ InitComponent /\ stored = AbsentItem /\ chapterSource = OrderedChapters
    /\ hlsSupported = TRUE
    /\ cacheItem = AbsentCache /\ listItem = AbsentValue /\ now = 0 /\ lastRead = NoRead
    /\ initialChannel \in 0..MissingUrl
NextRemembered ==
    \/ \E m \in {x \in IptvInputs : ~x.epgUrl} \cup LocalInputs : Activate(m, TRUE, TRUE)
    \/ \E c \in Channels : SelectChannel(c)
    \/ LoadedMetadata(<<>>)
    \/ \E t \in TimeInputs : TimeUpdate(t)
SpecRemembered == InitRemembered /\ [][NextRemembered]_vars

\* ------------------------------------------------------------------ the position store alone

\* the identities the store specification writes
StoreIds == {LocalId, IptvId, TorrentId(1, 1)}
\* setPlaybackPosition(id, t) and clearPlaybackPosition(id) applied to the stored item
StoreRecord(id, t) ==
    /\ stored' = SetPlaybackPosition(stored, id, t)
    /\ UNCHANGED writes
    /\ UNCHANGED <<mediaId, resumeTime, videoContent, videoDuration, timeUpdateTimeoutRef,
                   posTimers, showSkipIntro, seekState, otherThanPosition>>
StoreClear(id) ==
    /\ stored' = ClearPlaybackPosition(stored, id)
    /\ UNCHANGED writes
    /\ UNCHANGED <<mediaId, resumeTime, videoContent, videoDuration, timeUpdateTimeoutRef,
                   posTimers, showSkipIntro, seekState, otherThanPosition>>
\* the item may be missing or unreadable when the store is first used
InitStore ==
    /\ InitComponent /\ stored \in {AbsentItem, CorruptItem}
    /\ chapterSource = OrderedChapters /\ hlsSupported = TRUE /\ InitStorage
NextStore ==
    \/ \E id \in StoreIds, t \in TimeInputs : StoreRecord(id, t)
    \/ \E id \in StoreIds : StoreClear(id)
SpecStore == InitStore /\ [][NextStore]_vars

\* ------------------------------------------------------------------ the persistence layer

\* the state of the player component and of the media element
componentState == <<sessionState, swarmRefs, playerState, fetches, lookupState, lookupFlags,
                    subtitleState, blobState, mediaElement, queueState, positionState,
                    textTrackState, cueState, introState, seekState,
                    currentChannel, hlsAttached, hlsVar, hlsSupported, initialChannel,
                    transportState, playbackRate, zipState>>
CacheDurations == {1, 2}

\* one of the readers of a plain key is called
ReadList(op) ==
    /\ lastRead' = ReadValue(op, listItem)
    /\ UNCHANGED <<cacheItem, listItem, now, componentState>>
\* a setter of a plain key (l.100-102, l.175-181, l.246-248, l.276-278) stores a value
WriteList ==
    /\ listItem' = JsonValue
    /\ UNCHANGED <<cacheItem, now, lastRead, componentState>>
\* getPlaybackPosition(id) (l.107-116)
ReadPosition(id) ==
    /\ lastRead' = Returns("getPlaybackPosition", GetPlaybackPosition(stored, id))
    /\ UNCHANGED <<cacheItem, listItem, now, componentState>>
\* getFromCache(key, url) at Date.now() = now
CacheRead(url) ==
    /\ LET read == GetFromCache(cacheItem, url, now)
       IN /\ lastRead' = Returns("getFromCache", read.result)
          /\ cacheItem' = read.item
    /\ UNCHANGED <<listItem, now, componentState>>
\* saveToCache(key, url, data, durationMs) at Date.now() = now
CacheWrite(url, data, durationMs) ==
    /\ cacheItem' = SaveToCache(cacheItem, url, data, now, durationMs)
    /\ UNCHANGED <<listItem, now, lastRead, componentState>>
\* time passes
ClockTick ==
    /\ now < MaxClock
    /\ now' = now + 1
    /\ UNCHANGED <<cacheItem, listItem, lastRead, componentState>>
\* any item may be missing or unreadable when the layer is first used
InitPersistence ==
    /\ InitComponent /\ stored \in {AbsentItem, CorruptItem}
    /\ chapterSource = OrderedChapters /\ hlsSupported = TRUE
    /\ cacheItem \in {AbsentCache, CorruptCache}
    /\ listItem \in {AbsentValue, CorruptValue, JsonValue}
    /\ now = 0 /\ lastRead = NoRead /\ initialChannel = 0
NextPersistence ==
    \/ \E op \in GuardedReaders \cup PlainReaders : ReadList(op)
    \/ WriteList
    \/ \E id \in StoreIds : ReadPosition(id)
    \/ \E url \in CacheKeys : CacheRead(url)
    \/ \E url \in CacheKeys, data \in CacheData, d \in CacheDurations : CacheWrite(url, data, d)
    \/ ClockTick
SpecPersistence == InitPersistence /\ [][NextPersistence]_vars

\* ------------------------------------------------------------------ transport and cast
otherThanTransport == <<sessionState, swarmRefs, playerState, fetches, lookupState,
                        lookupFlags, subtitleState, blobState, mediaElement, queueState,
                        positionState, textTrackState, cueState, introState,
                        currentChannel, hlsAttached, hlsVar, browserState, zipState>>
VolumeInputs == {0 - 1, 1, 3}
Rates == {1, 2}
Clamp(newVolume) == IF newVolume < 0 THEN 0 ELSE IF newVolume > FullVolume THEN FullVolume ELSE newVolume
\* an attribute of the element is set: a task is queued when the value changes
SetAttr(v, changed, type) == IF changed THEN [v EXCEPT !.events = Append(@, type)] ELSE v

\* handlePlayPause (l.565-568)
PlayPause ==
    /\ ~ended /\ ShowPlayer /\ Len(videoEl.events) < MaxEvents
    /\ videoEl' = IF videoEl.paused THEN Play(videoEl) ELSE Pause(videoEl)
    /\ playRequested' = (playRequested \/ videoEl.paused)
    /\ UNCHANGED <<seekTime, transportState, playbackRate, otherThanTransport>>

\* handleVolumeChange (l.570-578)
VolumeChange(newVolume) ==
    /\ ~ended /\ ShowPlayer /\ Len(videoEl.events) + 2 <= MaxEvents
    /\ LET clampedVolume == Clamp(newVolume)
           unmuted == SetAttr([videoEl EXCEPT !.muted = FALSE], videoEl.muted, "volumechange")
       IN /\ videoEl' = SetAttr([unmuted EXCEPT !.volume = clampedVolume],
                                videoEl.volume # clampedVolume, "volumechange")
          /\ muted' = FALSE
          /\ volume' = clampedVolume
    /\ UNCHANGED <<seekTime, playRequested, playing, castState, session, castCalls,
                   playbackRate, otherThanTransport>>

\* handleMuteToggle (l.580-585)
MuteToggle ==
    /\ ~ended /\ ShowPlayer /\ Len(videoEl.events) < MaxEvents
    /\ videoEl' = SetAttr([videoEl EXCEPT !.muted = ~videoEl.muted], TRUE, "volumechange")
    /\ muted' = videoEl'.muted
    /\ UNCHANGED <<seekTime, playRequested, playing, volume, castState, session, castCalls,
                   playbackRate, otherThanTransport>>

\* handleSeek (l.587-589)
Seek(time) ==
    /\ ~ended /\ ShowPlayer
    /\ seekTime' = time
    /\ UNCHANGED <<playRequested, videoEl, transportState, playbackRate, otherThanTransport>>

\* handlePlaybackRateChange (l.599-601)
PlaybackRateChange(rate) ==
    /\ ~ended /\ ShowPlayer /\ Len(videoEl.events) < MaxEvents
    /\ videoEl' = SetAttr([videoEl EXCEPT !.playbackRate = rate],
                          videoEl.playbackRate # rate, "ratechange")
    /\ UNCHANGED <<seekTime, playRequested, transportState, playbackRate, otherThanTransport>>

\* The element dispatches its oldest queued event to onPlay, onPause, onRateChange or
\* onVolumeChangeEv (l.635-636, l.665-666)
VideoEvent ==
    /\ ~ended /\ videoEl.events # <<>>
    /\ LET type == Head(videoEl.events)
       IN /\ playing' = IF type = "play" THEN TRUE ELSE IF type = "pause" THEN FALSE ELSE playing
          /\ volume' = IF type = "volumechange" THEN videoEl.volume ELSE volume
          /\ muted' = IF type = "volumechange" THEN videoEl.muted ELSE muted
          /\ playbackRate' = IF type = "ratechange" THEN videoEl.playbackRate ELSE playbackRate
    /\ videoEl' = [videoEl EXCEPT !.events = Tail(@)]
    /\ UNCHANGED <<seekTime, playRequested, castState, session, castCalls, otherThanTransport>>

NextTransport ==
    \/ \E m \in LocalInputs : Activate(m, TRUE, TRUE)
    \/ PlayPause
    \/ \E newVolume \in VolumeInputs : VolumeChange(newVolume)
    \/ MuteToggle
    \/ \E time \in {3} : Seek(time)
    \/ \E rate \in Rates : PlaybackRateChange(rate)
    \/ VideoEvent
SpecTransport == Init /\ [][NextTransport]_vars

\* receiverListener (PlaylistLoader.tsx l.352-360)
ReceiverListener(available) ==
    /\ ~ended /\ Len(videoEl.events) < MaxEvents
    /\ castState' = IF available
                    THEN IF castState = "NO_DEVICES_AVAILABLE" THEN "NOT_CONNECTED" ELSE castState
                    ELSE "NO_DEVICES_AVAILABLE"
    /\ videoEl' = IF castState' # castState
                  THEN VideoAfterEffects(videoEl, FALSE,
                           CastsMedia(castState', session, media, currentChannel), FALSE)
                  ELSE videoEl
    /\ UNCHANGED <<seekTime, playRequested, playing, volume, muted, session, castCalls,
                   playbackRate, otherThanTransport>>

\* handleCast (l.201-207): stopCasting (l.395-406) or requestSession (l.382-393)
HandleCast ==
    /\ ~ended /\ ShowPlayer
    /\ IF castState = "CONNECTED"
       THEN /\ castCalls' = IF session THEN castCalls \cup {"stop"} ELSE castCalls
            /\ UNCHANGED castState
       ELSE /\ castCalls' = castCalls \cup {"requestSession"}
            /\ castState' = "CONNECTING"
    /\ UNCHANGED <<seekTime, playRequested, videoEl, playing, volume, muted, session,
                   playbackRate, otherThanTransport>>

\* a callback of chrome.cast.requestSession (l.384-391); after sessionListener the cast
\* effect runs for the new castState
SessionResult(ok) ==
    /\ ~ended /\ "requestSession" \in castCalls /\ Len(videoEl.events) < MaxEvents
    /\ castCalls' = castCalls \ {"requestSession"}
    /\ session' = (ok \/ session)
    /\ castState' = IF ok THEN "CONNECTED" ELSE "NOT_CONNECTED"
    /\ videoEl' = IF castState' # castState
                  THEN VideoAfterEffects(videoEl, FALSE,
                           CastsMedia(castState', session', media, currentChannel), FALSE)
                  ELSE videoEl
    /\ UNCHANGED <<seekTime, playRequested, playing, volume, muted, playbackRate,
                   otherThanTransport>>

\* a callback of session.stop (l.396-404)
StopResult(ok) ==
    /\ ~ended /\ "stop" \in castCalls /\ Len(videoEl.events) < MaxEvents
    /\ castCalls' = castCalls \ {"stop"}
    /\ IF ok
       THEN /\ session' = FALSE /\ castState' = "NOT_CONNECTED"
            /\ videoEl' = Play(videoEl)
            /\ playRequested' = TRUE
       ELSE UNCHANGED <<session, castState, videoEl, playRequested>>
    /\ UNCHANGED <<seekTime, playing, volume, muted, playbackRate, otherThanTransport>>

NextCast ==
    \/ \E m \in {x \in IptvInputs : ~x.epgUrl} \cup LocalInputs : Activate(m, TRUE, TRUE)
    \/ \E available \in BOOLEAN : ReceiverListener(available)
    \/ HandleCast
    \/ \E ok \in BOOLEAN : SessionResult(ok)
    \/ \E ok \in BOOLEAN : StopResult(ok)
    \/ PlayPause
    \/ VideoEvent
SpecCast == Init /\ [][NextCast]_vars

\* ------------------------------------------------------------------ download all as ZIP
otherThanZip == <<sessionState, swarmRefs, torrentInfo, torrentError, selectedFile,
                  timeRemaining, fetches, lookupState, lookupFlags, subtitleState,
                  tracksToClean, localFileUrl, localUrlSeen, mediaElement, queueState,
                  positionState, textTrackState, cueState, introState, seekState,
                  currentChannel, hlsAttached, hlsVar, browserState, transportState,
                  playbackRate>>

\* handleDownloadAllAsZip (l.789-796) up to its await; proceed: the total size is at most
\* 2 GB or the user confirms
DownloadAllAsZip(proceed) ==
    /\ ~ended /\ zipsStarted < MaxZips
    /\ IF torrentInfo = NoInfo \/ isZipping \/ ~proceed
       THEN UNCHANGED <<isZipping, zipJobs, zipsStarted, torrentStatus>>
       ELSE /\ isZipping' = TRUE
            /\ torrentStatus' = "Comprimiendo archivos..."
            /\ zipJobs' = [zipJobs EXCEPT !.reading = @ + 1]
            /\ zipsStarted' = zipsStarted + 1
    /\ UNCHANGED <<blobs, revoked, otherThanZip>>

\* Promise.all of the getBlob reads settles (l.798-806): ok, or one read failed and the
\* catch block runs (l.816-819)
BlobsRead(ok) ==
    /\ ~ended /\ zipJobs.reading > 0
    /\ IF ok
       THEN /\ zipJobs' = [zipJobs EXCEPT !.reading = @ - 1, !.compressing = @ + 1]
            /\ UNCHANGED <<isZipping, torrentStatus>>
       ELSE /\ zipJobs' = [zipJobs EXCEPT !.reading = @ - 1]
            /\ torrentStatus' = "Error al crear el archivo ZIP."
            /\ isZipping' = FALSE
    /\ UNCHANGED <<zipsStarted, blobs, revoked, otherThanZip>>

\* the callback of zip (l.807-815), which the library calls after handleDownloadAllAsZip
\* has left its try block: `throw err` ends the callback and nothing catches it
ZipCallback(err) ==
    /\ ~ended /\ zipJobs.compressing > 0
    /\ ~err => Len(blobs) < MaxUrls
    /\ zipJobs' = [zipJobs EXCEPT !.compressing = @ - 1]
    /\ IF err
       THEN UNCHANGED <<isZipping, torrentStatus, blobs, revoked>>
       ELSE /\ blobs' = Append(blobs, [sess |-> gen, kind |-> "zip"])
            /\ revoked' = revoked \cup {Len(blobs) + 1}
            /\ isZipping' = FALSE
            /\ torrentStatus' = "ZIP descargado."
    /\ UNCHANGED <<zipsStarted, otherThanZip>>

NextZip ==
    \/ \E m \in {x \in TorrentInputs : x.mode = "download"} : Activate(m, TRUE, TRUE)
    \/ \E g \in Sessions : AddCallback(g, TRUE, "moving")
    \/ \E g \in Sessions : TorrentReady(g, "moving")
    \/ \E proceed \in BOOLEAN : DownloadAllAsZip(proceed)
    \/ \E ok \in BOOLEAN : BlobsRead(ok)
    \/ \E err \in BOOLEAN : ZipCallback(err)
\* every read of the blobs and every compression reaches its callback
SpecZip ==
    /\ Init /\ [][NextZip]_vars
    /\ WF_vars(\E ok \in BOOLEAN : BlobsRead(ok))
    /\ WF_vars(\E err \in BOOLEAN : ZipCallback(err))

\* ------------------------------------------------------------------ C1, C2
\* an engine callback of session g: add callback, 'ready', 'download'/'upload',
\* the 1 s interval, 'done', 'error', the 30 s timeout
SwarmCallback(g) ==
    \/ \E hit \in BOOLEAN, s \in Snaps : AddCallback(g, hit, s)
    \/ \E s \in Snaps : TorrentReady(g, s)
    \/ \E s \in Snaps : TorrentTransfer(g, s)
    \/ \E s \in Snaps : ProgressTick(g, s)
    \/ TorrentDone(g)
    \/ \E k \in ErrKinds : TorrentError(g, k)
    \/ MetadataTimeout(g)

\* C1: once the next activation has begun (g < gen), no engine callback of session g
\* changes torrentInfo, torrentStatus, torrentError, selectedFile or timeRemaining.
C1_StaleCallbacksChangeNothing ==
    [][\A g \in Sessions : (g < gen /\ SwarmCallback(g)) => UNCHANGED playerState]_vars
\* the add callback of session 1 was delivered after activation 2 and returned at l.411,
\* while session 2 shows its own swarm state
C1_Witness ==
    /\ gen = 2 /\ addCb[1] = "delivered" /\ listeners[1] = "none"
    /\ torrentInfo.infoHash = 2

\* C2: every engine not yet asked to destroy itself belongs to the live session, so at
\* most one exists and none survives the teardown of the session that created it.
C2_OneLiveEngine ==
    /\ Cardinality({g \in Sessions : client[g] = "live"}) <= 1
    /\ \A g \in Sessions : client[g] = "live" => (g = gen /\ ~ended)


\* ------------------------------------------------------------------ C3
\* a lookup started under session g settles
LookupSettles(g) ==
    \/ \E ok \in BOOLEAN : EpgResult(g, ok)
    \/ \E found \in BOOLEAN : GeminiResult(g, found)
    \/ \E found \in BOOLEAN : SelectLookupResult(g, found)
    \/ \E found \in BOOLEAN : ChaptersResult(g, found)
    \/ \E found \in BOOLEAN : FileInfoResult(g, found)

\* C3: the result of a lookup started under session g that arrives after a later
\* activation (g < gen) sets none of epgData, geminiInfo, chapters, activeFileInfo.
C3_LateResultsDiscarded ==
    [][\A g \in Sessions : (g < gen /\ LookupSettles(g)) => UNCHANGED lookupState]_vars

\* ------------------------------------------------------------------ C10
\* C10: once the media of the new session has produced its metadata event, every blob
\* URL created for the subtitles of an earlier session is revoked.
C10_SubtitleUrlsRevoked ==
    \A u \in 1..Len(blobs) :
        (blobs[u].kind = "subtitle" /\ blobs[u].sess < gen /\ metaFired[gen])
            => u \in revoked


\* ------------------------------------------------------------------ C4 .. C9
Items == 1..Len(downloadQueue)

\* C4: the download queue holds at most one item whose status is 'preparing' or
\* 'downloading'.
C4_SingleFlight ==
    Cardinality({i \in Items : downloadQueue[i].status \in {"preparing", "downloading"}}) <= 1

\* C5: at most one getBlobURL request is outstanding (issued, callback not delivered).
C5_OneOutstandingRequest ==
    /\ \A f \in Files : blobReqs[f] <= 1
    /\ \A f, h \in Files : (blobReqs[f] > 0 /\ blobReqs[h] > 0) => f = h

\* C6: the queue never contains two items with the same file name.
C6_NoDuplicateNames ==
    \A i, j \in Items : downloadQueue[i].file = downloadQueue[j].file => i = j

\* C7: an item leaves 'queued' only when every item enqueued before it is 'done' or
\* 'error'.
C7_StrictFifo ==
    [][\A i \in Items :
          (/\ i <= Len(downloadQueue')
           /\ downloadQueue[i].status = "queued"
           /\ downloadQueue'[i].status # "queued")
          => \A j \in 1..(i - 1) : downloadQueue[j].status \in {"done", "error"}]_vars

\* C8: an item whose materialization failed is 'error' with a non-empty message, no
\* save is triggered for it, and 'error' and 'done' are terminal: no status is assigned
\* to an item after either of them.
C8_FailureIsTerminal ==
    \A i \in Items :
        LET t == downloadQueue[i].trail IN
        /\ \A k \in 1..(Len(t) - 1) : t[k] \notin {"error", "done"}
        /\ downloadQueue[i].status = "error"
              => downloadQueue[i].error # "" /\ downloadQueue[i].saves = 0

\* C9: an item that is 'done' went queued, preparing, downloading, done in that order
\* and the save action ran exactly once for it.
C9_SuccessPath ==
    \A i \in Items :
        downloadQueue[i].status = "done"
            => /\ downloadQueue[i].trail = <<"queued", "preparing", "downloading", "done">>
               /\ downloadQueue[i].saves = 1

\* ------------------------------------------------------------------ C11, C12
\* C11: every blob URL the player created under a session that is gone (a later
\* activation happened, or the player was unmounted) is revoked.
C11_NoUrlOutlivesSession ==
    \A u \in 1..Len(blobs) : (blobs[u].sess < gen \/ ended) => u \in revoked

\* C12: in the state an activation leaves, the swarm handle, the EPG data and the
\* per-file info are at their initial values unless the new session set them, and the
\* subtitle lists, the chapters, the queue, the selected file and the swarm info are
\* at their initial values.
C12_ActivationResetsDerivedState ==
    [][gen' # gen =>
          /\ epgData' \in {0, gen'} /\ activeFileInfo' = 0 /\ torrentRef' = 0
          /\ subtitleTracks' = <<>> /\ activeSubtitleTrack' = NoTrack
          /\ availableSubtitleTracks' = <<>> /\ chapters' = 0
          /\ downloadQueue' = <<>> /\ selectedFile' = NoFile /\ torrentInfo' = NoInfo
          /\ torrentError' \in {"null", "no-library"}]_vars

\* ------------------------------------------------------------------ C17 .. C20
\* C17: no stored position lies in the last 5% of the duration of the media it belongs
\* to (the store starts empty).
C17_NoFinishedPositionStored ==
    \A id \in PosIds :
        GetPlaybackPosition(stored, id) # <<>>
            => ~Finished(GetPlaybackPosition(stored, id)[1], DurationOf(id))

\* the identity of the content a local or live descriptor names
DescriptorId(m) == IF m.type = "local" THEN LocalId ELSE IptvId

\* C20: when a local or live descriptor is activated, the media identity is the one of
\* its content, and a position above 5 seconds stored under it is offered for resume.
C20_SameContentResumes ==
    [][(gen' # gen /\ media'.type \in {"local", "iptv"}) =>
          /\ mediaId' = DescriptorId(media')
          /\ LET savedTime == GetPlaybackPosition(stored, DescriptorId(media'))
             IN (savedTime # <<>> /\ savedTime[1] > ResumeThreshold)
                    => resumeTime' = savedTime[1]]_vars

\* C18: an identity reads absent until a record of it; a record of t > 0 reads back t;
\* a clear reads back absent; neither changes what any other identity reads.
C18_StoreLaws ==
    /\ [](\A id \in StoreIds :
            /\ \A t \in TimeInputs \ {0} :
                  /\ GetPlaybackPosition(SetPlaybackPosition(stored, id, t), id) = <<t>>
                  /\ \A other \in StoreIds \ {id} :
                        GetPlaybackPosition(SetPlaybackPosition(stored, id, t), other)
                            = GetPlaybackPosition(stored, other)
            /\ GetPlaybackPosition(ClearPlaybackPosition(stored, id), id) = <<>>
            /\ \A other \in StoreIds \ {id} :
                  GetPlaybackPosition(ClearPlaybackPosition(stored, id), other)
                      = GetPlaybackPosition(stored, other))
    /\ [][\A id \in StoreIds :
            (GetPlaybackPosition(stored, id) = <<>> /\ GetPlaybackPosition(stored', id) # <<>>)
                => \E t \in TimeInputs : StoreRecord(id, t)]_vars
C18_Witness ==
    /\ GetPlaybackPosition(stored, LocalId) = <<8>>
    /\ GetPlaybackPosition(stored, IptvId) = <<3>>
    /\ stored.positions[TorrentId(1, 1)] = <<0>>

\* C19: at most one position timer is pending; while one is pending no timer is added;
\* a write to the store comes from a timer that was set after the write before it and
\* has waited its full delay.
C19_WritesCoalesced ==
    /\ [](Cardinality({i \in 1..Len(posTimers) : Pending(posTimers[i])}) <= 1)
    /\ [][(\E i \in 1..Len(posTimers) : Pending(posTimers[i]))
              => Len(posTimers') = Len(posTimers)]_vars
    /\ [][writes' # writes =>
              \E i \in 1..Len(posTimers) :
                  /\ posTimers[i].state = "due" /\ posTimers'[i].state = "fired"
                  /\ posTimers[i].armedAt = writes]_vars
C19_Witness ==
    /\ writes = 2
    /\ \A i \in 1..Len(posTimers) : posTimers[i].state = "fired"

\* C16: the available-subtitle list holds at most one track per label, and a label
\* carried by an externally loaded track of the session is listed with that external
\* track (a blob URL as src), not with an embedded entry (src `embedded-...`).
C16_ExternalTrackKept ==
    /\ \A i, j \in 1..Len(availableSubtitleTracks) :
           availableSubtitleTracks[i].label = availableSubtitleTracks[j].label => i = j
    /\ \A i \in 1..Len(availableSubtitleTracks) :
           (\E j \in 1..Len(subtitleTracks) :
                subtitleTracks[j].label = availableSubtitleTracks[i].label)
           => availableSubtitleTracks[i].src > 0

\* the text track the selection stands for: the <track> element of an external track,
\* the track an `embedded-${i}-${label}` entry was listed from; 0 when there is none
ActiveTextTrack ==
    IF activeSubtitleTrack = NoTrack THEN 0
    ELSE IF activeSubtitleTrack.src > 0
         THEN IF \E j \in 1..Len(subtitleTracks) : subtitleTracks[j].src = activeSubtitleTrack.src
              THEN CHOOSE j \in 1..Len(subtitleTracks) :
                       subtitleTracks[j].src = activeSubtitleTrack.src
              ELSE 0
         ELSE IF /\ (0 - activeSubtitleTrack.src) \in 1..Len(trackMode)
                 /\ TextTracks(inbandTracks)[0 - activeSubtitleTrack.src] = activeSubtitleTrack.label
              THEN 0 - activeSubtitleTrack.src
              ELSE 0
\* the cues of the active track, empty when there is none
ActiveCues == IF ActiveTextTrack = 0 THEN {} ELSE trackCues[ActiveTextTrack]
\* cue c is at its original timing moved by the offset o
CueAtOffset(c, o) ==
    /\ c.startTime = c.orig + o
    /\ c.endTime = c.orig + CueLength + o

\* C13: after every change of the subtitle offset, each cue of the active track starts
\* and ends at its original time plus the new offset (so offset 0 restores the original
\* timings and an offset applied again gives the same timings), whatever offsets were
\* applied and whichever tracks were selected before.
C13_OffsetFromOriginal ==
    [][subtitleOffset' # subtitleOffset
       => \A c \in ActiveCues' : CueAtOffset(cues'[c], subtitleOffset')]_vars

\* C14: an entry of the registry of original cue times is never overwritten, and once
\* the offset was applied (the offset or the selection changed) every cue of the active
\* track, also one added after an earlier application, has an entry holding its
\* original timing.
C14_OriginalsRecordedOnce ==
    /\ [][\A c \in 1..Len(cues) :
             (c <= Len(cues') /\ originalCueTimes[c] # NoTimes)
             => originalCueTimes'[c] = originalCueTimes[c]]_vars
    /\ [][(subtitleOffset' # subtitleOffset \/ activeSubtitleTrack' # activeSubtitleTrack)
          => \A c \in ActiveCues' :
                originalCueTimes'[c] = [startTime |-> cues'[c].orig,
                                        endTime |-> cues'[c].orig + CueLength]]_vars

\* C15: at most one text track of the media element is in mode 'showing': none when
\* no track is selected, and the active track alone when one is selected, also when
\* tracks share a label.
C15_OneTrackShowing ==
    LET showing == {i \in 1..Len(trackMode) : trackMode[i] = "showing"}
    IN /\ Cardinality(showing) <= 1
       /\ activeSubtitleTrack = NoTrack => showing = {}
       /\ ActiveTextTrack # 0 => showing = {ActiveTextTrack}

\* ------------------------------------------------------------------ C21..C23
\* the intro window of a chapter list: it starts at the first chapter whose name
\* contains 'intro' and ends at the smallest timestamp greater than its start
IntroStart(c) == c[FindIntro(c)].timestamp
LaterStamps(c) == {c[j].timestamp : j \in {k \in 1..Len(c) : c[k].timestamp > IntroStart(c)}}
HasWindow(c) == FindIntro(c) # 0 /\ LaterStamps(c) # {}
WindowEnd(c) == CHOOSE e \in LaterStamps(c) : \A x \in LaterStamps(c) : e <= x
InIntroWindow(c, time) == HasWindow(c) /\ IntroStart(c) <= time /\ time < WindowEnd(c)
Ascending(c) == \A i \in 1..(Len(c) - 1) : c[i].timestamp <= c[i + 1].timestamp
NameCredits == <<"C", "r", "e", "d", "i", "t", "s">>
ExampleChapters ==
    <<[timestamp |-> 0, name |-> NameIntro], [timestamp |-> 90, name |-> NameEpisode],
      [timestamp |-> 1200, name |-> NameCredits]>>

\* C21: for a chapter list in ascending order, skip-intro is shown after a time update
\* at t exactly when t lies in [s, e), so also at t = s; for the chapters Intro at 0,
\* Episode at 90, Credits at 1200 it is shown at 45 and not at 90 or 1199.
C21_ShownInHalfOpenWindow ==
    /\ [](IntroShown(ExampleChapters, 45) /\ ~IntroShown(ExampleChapters, 90)
           /\ ~IntroShown(ExampleChapters, 1199))
    /\ [][\A t \in TimeInputs :
             (TimeUpdate(t) /\ chapters # 0 /\ Ascending(chapterItems))
             => showSkipIntro' = InIntroWindow(chapterItems, t)]_vars

\* C22: for every delivered list, skip-intro is shown only before the smallest
\* timestamp greater than the intro's; without such a timestamp it is not shown and
\* the skip action changes nothing; the skip action seeks to the window end and hides
\* the control.
C22_WindowEndIsNextByTimestamp ==
    /\ [][\A t \in TimeInputs :
             (TimeUpdate(t) /\ chapters # 0 /\ showSkipIntro')
             => (HasWindow(chapterItems) /\ t < WindowEnd(chapterItems))]_vars
    /\ [][(SkipIntro /\ chapters # 0)
          => IF HasWindow(chapterItems)
             THEN seekTime' = WindowEnd(chapterItems) /\ ~showSkipIntro'
             ELSE UNCHANGED <<seekTime, showSkipIntro>>]_vars

\* C23: after a time update the skip-intro visibility is the window condition on the
\* current chapters and time, and it is off when there is no chapter list, whatever
\* it was before.
C23_VisibilityIsRecomputed ==
    [][\A t \in TimeInputs :
          TimeUpdate(t)
          => showSkipIntro' = (chapters # 0 /\ IntroShown(chapterItems, t))]_vars

\* ------------------------------------------------------------------ C24, C25
\* C24: whenever a resume offer appears, or stays while the media identity changes, the
\* store holds for the current identity the offered position, above 5 seconds; one
\* decision discards the offer; after a session change an offer, if any, is the one
\* of the new session's identity.
C24_OfferOnlyForStoredPosition ==
    /\ [][(resumeTime' # 0 /\ (resumeTime' # resumeTime \/ mediaId' # mediaId \/ gen' # gen))
          => /\ mediaId' # NoId
             /\ GetPlaybackPosition(stored', mediaId') = <<resumeTime'>>
             /\ resumeTime' > ResumeThreshold]_vars
    /\ [][\A resume \in BOOLEAN : ResumePlayback(resume) => resumeTime' = 0]_vars

\* C25: with an offer for position p, 'resume' assigns p to the media position and
\* 'restart' assigns 0; both discard the offer and start playback.
C25_DecisionSeeks ==
    /\ [][ResumePlayback(TRUE)
          => seekTime' = resumeTime /\ resumeTime' = 0 /\ playRequested']_vars
    /\ [][ResumePlayback(FALSE)
          => seekTime' = 0 /\ resumeTime' = 0 /\ playRequested']_vars

\* ------------------------------------------------------------------ C26, C27
\* a session whose engine was given the identifier and has not signalled ready
Waiting(g) == g = gen /\ ~ended /\ client[g] = "live" /\ isMounted[g] /\ ~torReady[g]

\* C26: a session that stays without 'ready' gets the stalled warning as its error
\* once the 30 s are over; the warning leaves the engine alone; 'ready' clears it and
\* sets the status to downloading; it is never raised after 'ready' or after teardown.
C26_StalledWarning ==
    /\ \A g \in Sessions :
          Waiting(g) ~> (torrentError = "stalled" \/ ~Waiting(g))
    /\ [][\A g \in Sessions : MetadataTimeout(g) => client' = client]_vars
    /\ [][\A g \in Sessions, s \in Snaps :
             (TorrentReady(g, s) /\ Waiting(g) /\ torrentError = "stalled")
             => (torrentError' = "null" /\ torrentStatus' = "Downloading...")]_vars
    /\ [][(torrentError' = "stalled" /\ torrentError # "stalled")
          => (~ended /\ isMounted[gen] /\ ~torReady[gen])]_vars

\* C27: in the step that makes the file list of a session with a pre-selected name
\* known, the file of that name becomes the selected file if the torrent has one, and
\* no file is selected otherwise, before as well as after the 30 s warning.
C27_PreselectionBound ==
    [][(torrentInfo = NoInfo /\ torrentInfo' # NoInfo /\ media.initialFile # 0)
       => selectedFile' = IF media.initialFile \in Files
                          THEN [sess |-> gen, name |-> media.initialFile]
                          ELSE NoFile]_vars
\* the pre-selected file was bound by a 'ready' that came after the warning
C27_Witness ==
    /\ media.initialFile \in Files /\ torrentInfo # NoInfo
    /\ selectedFile = [sess |-> gen, name |-> media.initialFile]
    /\ metadataTimeoutId[gen] = "fired"

\* ------------------------------------------------------------------ C28 .. C30
\* a fresh instance for channel c
FreshLoader(c, isProxyAttempt) ==
    [channel |-> c, proxy |-> isProxyAttempt, mounted |-> TRUE, recoveries |-> 0]
\* the instances on the media element, less their recovery counts
LoadsOf(l) == [j \in 1..Len(l) |-> <<l[j].channel, l[j].proxy>>]

C29_OneRecoveryPerSource ==
    \A i \in 1..Len(hlsAttached) : hlsAttached[i].recoveries <= 1

\* C30: a channel switch leaves the session as it is (no setup, no teardown: sessions,
\* engines, metadata requests), and with it the subtitle tracks, the active subtitle
\* track, the EPG data, the channel list and the download queue; the stream loader of
\* the old channel is replaced by a direct one of the new channel.
C30_SwitchReplacesLoaderOnly ==
    [][\A c \in Channels :
          SelectChannel(c)
          => /\ UNCHANGED <<sessionState, swarmRefs, fetches, subtitleState, epgData,
                            isEpgLoading, downloadQueue, blobState>>
             /\ currentChannel' = c
             /\ hlsSupported => hlsAttached' = <<FreshLoader(c, FALSE)>>]_vars
\* the second channel was selected in a session with EPG data and a listed subtitle,
\* and its metadata has not arrived
C30_Witness ==
    /\ currentChannel = 2 /\ epgData = gen
    /\ availableSubtitleTracks # <<>> /\ activeSubtitleTrack # NoTrack
    /\ videoDuration = 0
    /\ hlsAttached = <<FreshLoader(2, FALSE)>>

\* ------------------------------------------------------------------ C31, C34
\* C31: no read of the persistence layer raises an error, and a read of an item that
\* does not parse returns the default: empty or absent.
C31_ReadsNeverThrow ==
    /\ [](~lastRead.threw)
    /\ [][\A op \in GuardedReaders \cup PlainReaders :
             (ReadList(op) /\ listItem.kind = "corrupt") => lastRead'.value = <<>>]_vars
    /\ [][\A url \in CacheKeys :
             (CacheRead(url) /\ cacheItem.kind = "corrupt") => lastRead'.value = <<>>]_vars
    /\ [][\A id \in StoreIds :
             (ReadPosition(id) /\ stored.kind = "corrupt") => lastRead'.value = <<>>]_vars

\* the entry of a key in the cache item, <<>> when the item holds none
EntryOf(item, url) == IF item.kind = "json" THEN item.entries[url] ELSE <<>>
Fresh(item, url, time) == EntryOf(item, url) # <<>> /\ time < EntryOf(item, url)[1].expiresAt

\* C34: a cache read returns the stored value exactly while the time is before the
\* entry's expiry; at or after expiry it returns absent and removes that entry only;
\* after a write, reads of the key before the expiry return the written value, and the
\* write leaves the entries of the other keys as they were.
C34_CacheExpiry ==
    /\ [][\A url \in CacheKeys :
             CacheRead(url)
             => IF Fresh(cacheItem, url, now)
                THEN /\ lastRead'.value = <<EntryOf(cacheItem, url)[1].data>>
                     /\ cacheItem' = cacheItem
                ELSE /\ lastRead'.value = <<>>
                     /\ EntryOf(cacheItem', url) = <<>>
                     /\ \A k \in CacheKeys \ {url} :
                           EntryOf(cacheItem', k) = EntryOf(cacheItem, k)]_vars
    /\ [][\A url \in CacheKeys, data \in CacheData, d \in CacheDurations :
             CacheWrite(url, data, d)
             => /\ \A t \in now..(now + d - 1) :
                      GetFromCache(cacheItem', url, t).result = <<data>>
                /\ GetFromCache(cacheItem', url, now + d).result = <<>>
                /\ \A k \in CacheKeys \ {url} :
                      EntryOf(cacheItem', k) = EntryOf(cacheItem, k)]_vars
\* a read returned the value written for key 2 while key 1 holds an entry too, late
C34_Witness ==
    /\ lastRead.op = "getFromCache" /\ lastRead.value # <<>>
    /\ EntryOf(cacheItem, 1) # <<>> /\ Fresh(cacheItem, 2, now)
    /\ lastRead.value = <<EntryOf(cacheItem, 2)[1].data>>
    /\ now = MaxClock

\* ------------------------------------------------------------------ C32
\* C32: the observable playback state (playing, volume, muted, rate) changes only in a
\* step that dispatches an event of the media element, and no transport command (play or
\* pause, volume change, mute toggle, seek, rate change) changes it.
ObservableState == <<playing, volume, muted, playbackRate>>
C32_OnlyEventsWriteObservableState ==
    /\ [][ObservableState' # ObservableState => VideoEvent]_vars
    /\ [][(\/ PlayPause
           \/ \E newVolume \in VolumeInputs : VolumeChange(newVolume)
           \/ MuteToggle
           \/ \E time \in {3} : Seek(time)
           \/ \E rate \in Rates : PlaybackRateChange(rate))
          => UNCHANGED ObservableState]_vars

\* ------------------------------------------------------------------ C33
\* C33: whenever the cast state is Connected the local media element is paused, for
\* every kind of source.
C33_ConnectedMeansPaused == [](castState = "CONNECTED" => videoEl.paused)

\* ------------------------------------------------------------------ C35
\* C35: a delayed position write decides with a time and a duration of the same media:
\* when timer i records or clears a position, the media element still holds the media
\* whose identity and time the timer captured.
C35_WriteUsesOwnDuration ==
    [][\A i \in 1..MaxTimers :
          (PositionTimer(i) /\ writes' # writes) => videoContent = posTimers[i].id]_vars

\* ------------------------------------------------------------------ C36
\* C36: position recording survives a session change: in a mounted player with no
\* position write pending, the timer slot is free, so that the next playback-time
\* update schedules a write; this holds in particular after a teardown that cancelled
\* a pending write and the activation that followed it.
C36_RecordingSurvivesSessionChange ==
    [](~ended /\ (\A i \in 1..Len(posTimers) : ~Pending(posTimers[i]))
         => TimerSlotFree(timeUpdateTimeoutRef))

\* ------------------------------------------------------------------ C37
\* C37: whenever an active subtitle track is set, it is an entry of the available-subtitle
\* list; in particular the list holds an external track once its file is loaded.
C37_ActiveTrackIsAvailable ==
    [](activeSubtitleTrack # NoTrack
         => \E i \in 1..Len(availableSubtitleTracks) :
                availableSubtitleTracks[i] = activeSubtitleTrack)

\* ------------------------------------------------------------------ C38
\* C38: the activation of a live session (its channel list is not empty) yields a current
\* channel of the list: the channel with the remembered URL when the list holds one,
\* and otherwise the first channel of the list.
C38_InitialChannelInList ==
    [][(gen' # gen /\ media'.type = "iptv") =>
          /\ currentChannel' \in Channels
          /\ currentChannel' = IF initialChannel \in Channels
                               THEN initialChannel ELSE InitialChannel]_vars

\* ------------------------------------------------------------------ C39
\* C39: download-all-as-ZIP is single-flight and its busy state ends: at most one ZIP is
\* being built at a time, a request made while the flag is set starts nothing, and
\* whenever the zipping flag is set it later returns to false, whatever the outcome of
\* the blob reads and of the compression.
C39_ZipSingleFlightAndTerminates ==
    /\ [](zipJobs.reading + zipJobs.compressing <= 1)
    /\ [][isZipping => zipsStarted' = zipsStarted]_vars
    /\ (isZipping ~> ~isZipping)

=============================================================================
